---- MODULE Spec2Model ----
(***************************************************************************)
(* A model of rblox: the single-pass compiler (src/rblox/src/compiler) and *)
(* the stack VM (src/rblox/src/vm) with the module registries              *)
(* (src/rblox/src/gc).  Rust indices are 0-based; TLA+ sequences are       *)
(* 1-based, so element i of a Vec is seq[i + 1].                           *)
(***************************************************************************)
EXTENDS Integers, Sequences, FiniteSets, TLC

VARIABLES
  debug_assertions, \* build profile: the value of cfg!(debug_assertions)
  status,           \* "idle" | "running" | "dead" (the process panicked)
  result,           \* what the last VM::run returned
  runs,             \* number of VM::run calls made on this VM so far
  source,           \* the argument of the last VM::run
  compiled,         \* what the last compile produced
  frames,           \* VM.frames : Vec<CallFrame>
  stack,            \* VM.stack : Vec<Value>
  globals,          \* VM.globals : HashMap<String, Value>
  module,           \* VM.module : Module (functions, closures, upvals)
  functionHeap,     \* every Rc<LoxFunction> allocated so far
  closureHeap,      \* every Rc<RefCell<LoxClosure>> allocated so far
  upvalHeap,        \* every Rc<RefCell<LoxUpvalue>> allocated so far
  objects,          \* VM.objects : MemManager (the string pool)
  output,           \* values printed by the current run (Display form)
  warnings,         \* diagnostics reported without aborting in the current run
  slotId,           \* history: identity of the variable living in each stack slot
  cellVar,          \* history: the variable each upvalue cell was captured from
  nextId,           \* history: next fresh variable identity
  scanner,          \* the Scanner made by the last Scanner::new
  tokens            \* history: the tokens that scanner has yielded so far

vars == <<debug_assertions, status, result, runs, source, compiled, frames, stack, globals, module,
          functionHeap, closureHeap, upvalHeap, objects, output, warnings,
          slotId, cellVar, nextId, scanner, tokens>>

-----------------------------------------------------------------------------
(* Bounds of the model *)

MaxRuns == 2
\* exploration stops where the frame stack would grow past this depth
MaxFrames == 66

-----------------------------------------------------------------------------
(* Value  (common/value.rs)  and  LoxObject  (common/data.rs) *)

Nil == [t |-> "nil"]
Boolean(b) == [t |-> "bool", b |-> b]
\* An f64 is modelled as a fraction n / d in lowest terms with d >= 0;
\* d = 0 gives the IEEE specials: 1/0 = inf, -1/0 = -inf, 0/0 = NaN.
Abs(x) == IF x < 0 THEN -x ELSE x
Sign(x) == IF x < 0 THEN -1 ELSE IF x > 0 THEN 1 ELSE 0
RECURSIVE Gcd(_, _)
Gcd(a, b) == IF b = 0 THEN a ELSE Gcd(b, a % b)
F64(n, d) ==
  IF d = 0 THEN [t |-> "num", n |-> Sign(n), d |-> 0]
  ELSE LET g == Gcd(Abs(n), Abs(d))
       IN [t |-> "num", n |-> (Sign(d) * n) \div g, d |-> Abs(d) \div g]
Number(n) == [t |-> "num", n |-> n, d |-> 1]
IsNaN(a) == a.n = 0 /\ a.d = 0
NumAdd(a, b) == F64(a.n * b.d + b.n * a.d, a.d * b.d)
NumNeg(a) == F64(-a.n, a.d)
NumSub(a, b) == NumAdd(a, NumNeg(b))
NumMul(a, b) == F64(a.n * b.n, a.d * b.d)
NumDiv(a, b) == F64(a.n * b.d, a.d * b.n)
NumLess(a, b) ==
  /\ ~IsNaN(a) /\ ~IsNaN(b)
  /\ IF a.d = 0 /\ b.d = 0 THEN a.n < b.n ELSE a.n * b.d < b.n * a.d
NumEq(a, b) == ~IsNaN(a) /\ a = b
\* Value::Object(Rc<LoxObject::String>): rc names the allocation, 0 for an
\* allocation of its own that no pool holds (a chunk constant)
String(s) == [t |-> "str", s |-> s, rc |-> 0]
Function(name, idx) == [t |-> "fun", name |-> name, idx |-> idx]
Native(name, idx) == [t |-> "native", name |-> name, idx |-> idx]
Closure(name, idx) == [t |-> "closure", name |-> name, idx |-> idx]

\* a truth that also takes zero and the empty string for false
truth_zero_is_false(v) ==
  CASE v.t = "bool" -> v.b
    [] v.t = "nil" -> FALSE
    [] v.t = "num" -> v.n # 0
    [] v.t = "str" -> v.s # << >>
    [] OTHER -> TRUE

truth(v) ==
  CASE v.t = "bool" -> v.b
    [] v.t = "nil" -> FALSE
    [] OTHER -> TRUE

\* impl Not for Value
not(v) ==
  CASE v.t = "nil" -> FALSE
    [] OTHER -> ~truth(v)

equals(a, b) ==
  CASE a.t = "num" /\ b.t = "num" -> NumEq(a, b)
    [] a.t = "str" /\ b.t = "str" -> a.s = b.s
    [] OTHER -> a = b

type_name(v) ==
  CASE v.t = "bool" -> "boolean"
    [] v.t = "num" -> "number"
    [] v.t = "nil" -> "nil"
    [] v.t = "str" -> "string"
    [] v.t \in {"fun", "closure"} -> "<func>"
    [] v.t = "native" -> "<native fn>"

is_callable(v) == v.t \in {"fun", "native", "closure"}

-----------------------------------------------------------------------------
(* Ins  (common/opcode.rs) *)

Op(op) == [op |-> op]
OpN(op, n) == [op |-> op, n |-> n]
Constant(v) == [op |-> "Constant", v |-> v]
OpClosure(n, upvals) == [op |-> "Closure", n |-> n, upvals |-> upvals]

\* LoxFunction { name, arity, chunk, upvalues }
LoxFunction(name, arity, upvalues, code) ==
  [name |-> name, arity |-> arity, upvalues |-> upvalues, code |-> code]

-----------------------------------------------------------------------------
(* Gc<T>  (gc/module.rs): data : Vec<Option<Rc<T>>>, free : BinaryHeap<usize> *)

None == [some |-> FALSE]
Some(h) == [some |-> TRUE, h |-> h]

GcEmpty == [data |-> << >>, free |-> {}]

SetMax(S) == CHOOSE x \in S : \A y \in S : y <= x

\* Gc::get
GcGet(gc, idx) ==
  IF idx >= Len(gc.data) THEN None ELSE gc.data[idx + 1]

\* Gc::last : the last entry that is not None
GcLast(gc) ==
  LET live == {i \in 1..Len(gc.data) : gc.data[i].some}
  IN IF live = {} THEN None ELSE gc.data[SetMax(live)]

\* every kind of object is reclaimed once nothing else refers to it
check_any_kind(kind) == TRUE

\* Allocated::check : whether an object nothing else refers to may be
\* reclaimed.  Functions are never removed; closures and upvalues are.
check(kind) == kind # "function"

\* Gc::free : an entry is reclaimed when the registry holds its only handle
GcFree(gc, kind, strong_count(_)) ==
  LET freed == {i \in 1..Len(gc.data) :
                  /\ gc.data[i].some
                  /\ ~(strong_count(gc.data[i].h) > 1)
                  /\ check(kind)}
  IN [data |-> [i \in 1..Len(gc.data) |-> IF i \in freed THEN None ELSE gc.data[i]],
      free |-> gc.free \cup {i - 1 : i \in freed}]

\* the stress collection that Gc::push runs first in a debug build
GcStress(gc, kind, strong_count(_)) ==
  IF debug_assertions THEN GcFree(gc, kind, strong_count) ELSE gc

\* Gc::push, after the stress collection: [gc, idx]
GcInsert(gc, h) ==
  IF gc.free = {}
  THEN [gc |-> [gc EXCEPT !.data = Append(@, Some(h))], idx |-> Len(gc.data)]
  ELSE LET pos == SetMax(gc.free)
       IN [gc |-> [data |-> [gc.data EXCEPT ![pos + 1] = Some(h)],
                   free |-> gc.free \ {pos}],
           idx |-> pos]

-----------------------------------------------------------------------------
(* VM  (vm/mod.rs) *)

FRAMES_MAX == 64
STACK_MAX == 16320

\* Rc::strong_count of a closure: the registry's handle and one per frame
ClosureInRegistry(h) ==
  \E i \in 1..Len(module.closures.data) : module.closures.data[i] = Some(h)
ClosureCount(h) ==
  (IF ClosureInRegistry(h) THEN 1 ELSE 0)
  + Cardinality({i \in 1..Len(frames) : frames[i].function = h})

\* closures that some handle keeps alive
AliveClosures(cheap, fr, creg) ==
  {h \in 1..Len(cheap) :
     \/ \E i \in 1..Len(creg.data) : creg.data[i] = Some(h)
     \/ \E i \in 1..Len(fr) : fr[i].function = h}

\* Rc::strong_count of an upvalue: the registry's handle and one per
\* occurrence in the upvalues of a live closure
UpvalCount(h, ureg, cheap, fr, creg) ==
  (IF \E i \in 1..Len(ureg.data) : ureg.data[i] = Some(h) THEN 1 ELSE 0)
  + Cardinality({ci \in UNION {{<<c, i>> : i \in 1..Len(cheap[c].upvalues)} :
                                 c \in AliveClosures(cheap, fr, creg)} :
                   cheap[ci[1]].upvalues[ci[2]] = h})

FunctionCount(h) ==
  1 + Cardinality({c \in AliveClosures(closureHeap, frames, module.closures) :
                     closureHeap[c].fun = h})

Running == status = "running"
top == frames[Len(frames)]
chunk == functionHeap[closureHeap[top.function].fun].code
\* VM::advance returns Some((ip, ins, span))
CanFetch == Running /\ top.ip < Len(chunk)
ins == chunk[top.ip + 1]
advanced == [frames EXCEPT ![Len(frames)].ip = @ + 1]
Fetch(op) == CanFetch /\ ins.op = op

\* VM::peek
peek(st, distance) ==
  IF Len(st) - 1 < distance THEN None ELSE Some(st[Len(st) - distance])

\* VM::pop_to
pop_to(st, offset) == IF Len(st) > offset THEN SubSeq(st, 1, offset) ELSE st

\* history: the first kept slots keep their variable, the others are new
Regen(kept, n) ==
  [i \in 1..n |-> IF i <= kept THEN slotId[i] ELSE nextId + (i - kept) - 1]
Fresh(kept, n) == IF n > kept THEN n - kept ELSE 0

\* the dispatch loop goes on with frames fr and stack st
ContinueWith(fr, st, kept, pool) ==
  /\ frames' = fr
  /\ stack' = st
  /\ objects' = pool
  /\ slotId' = Regen(kept, Len(st))
  /\ nextId' = nextId + Fresh(kept, Len(st))
  /\ UNCHANGED <<debug_assertions, scanner, tokens, status, result, runs, source, compiled>>

Continue(fr, st, kept) == ContinueWith(fr, st, kept, objects)

\* interpret returns Err(err); VM::run reports it and returns Err(RuntimeError)
Fail(err, st, kept) ==
  /\ frames' = advanced
  /\ stack' = st
  /\ slotId' = Regen(kept, Len(st))
  /\ nextId' = nextId
  /\ status' = "idle"
  /\ result' = [kind |-> "RuntimeError", err |-> err]
  /\ UNCHANGED <<debug_assertions, scanner, tokens, runs, source, compiled, objects>>

\* a panic (unwrap on None, unreachable!, failed assert!) aborts the process
Panic(what) ==
  /\ status' = "dead"
  /\ result' = [kind |-> "panic", err |-> what]
  /\ UNCHANGED <<debug_assertions, scanner, tokens, runs, source, compiled, frames, stack, objects,
                 slotId, nextId>>

\* MemManager::add_string / Module::add_string: the handle and the pool after
add_string(pool, str) ==
  IF \E e \in pool.strings : e.key = str
  THEN [rc |-> (CHOOSE e \in pool.strings : e.key = str).rc, pool |-> pool]
  ELSE LET obj == pool.allocated + 1
       IN [rc |-> obj,
           pool |-> [strings |-> pool.strings \cup {[key |-> str, rc |-> obj]},
                     objects |-> Append(pool.objects, [rc |-> obj, s |-> str]),
                     allocated |-> obj]]

\* MemManager::take_string / Module::take_string
take_string(pool, str) ==
  IF \E e \in pool.strings : e.key = str
  THEN LET e == CHOOSE x \in pool.strings : x.key = str
       IN [rc |-> e.rc, pool |-> [pool EXCEPT !.strings = pool.strings \ {e}]]
  ELSE [rc |-> pool.allocated + 1,
        pool |-> [pool EXCEPT !.allocated = pool.allocated + 1]]

\* VM::push after pops values were popped
push(st, v, kept) ==
  IF Len(st) = STACK_MAX
  THEN Fail([e |-> "StackOverflow"], st, kept)
  ELSE IF v.t = "str"
       THEN LET obj == add_string(objects, v.s)
            IN ContinueWith(advanced, Append(st, [v EXCEPT !.rc = obj.rc]), kept, obj.pool)
       ELSE Continue(advanced, Append(st, v), kept)

Rest == <<globals, module, functionHeap, closureHeap, upvalHeap, cellVar, output, warnings>>

UnsupportedType(msg) == [e |-> "UnsupportedType", message |-> msg, level |-> "Error"]

popped(n) == SubSeq(stack, 1, Len(stack) - n)

ConstantIns ==
  /\ Fetch("Constant")
  /\ push(stack, ins.v, Len(stack))
  /\ UNCHANGED Rest

TrueIns ==
  /\ Fetch("True")
  /\ push(stack, Boolean(TRUE), Len(stack))
  /\ UNCHANGED Rest

FalseIns ==
  /\ Fetch("False")
  /\ push(stack, Boolean(FALSE), Len(stack))
  /\ UNCHANGED Rest

NilIns ==
  /\ Fetch("Nil")
  /\ push(stack, Nil, Len(stack))
  /\ UNCHANGED Rest

\* every pop of an empty stack is self.stack.pop().unwrap()
Negate ==
  /\ Fetch("Negate")
  /\ IF Len(stack) < 1 THEN Panic("pop")
     ELSE LET val == stack[Len(stack)]
          IN IF val.t = "num"
             THEN push(popped(1), NumNeg(val), Len(stack) - 1)
             ELSE Fail(UnsupportedType(<<"Bad type for unary - operator", type_name(val)>>),
                       popped(1), Len(stack) - 1)
  /\ UNCHANGED Rest

Not ==
  /\ Fetch("Not")
  /\ IF Len(stack) < 1 THEN Panic("pop")
     ELSE push(popped(1), Boolean(not(stack[Len(stack)])), Len(stack) - 1)
  /\ UNCHANGED Rest

\* bin_num_op! / bin_cmp_op! and the Add, Divide arms: b is popped first
BadOperands(what, a, b) ==
  UnsupportedType(<<what, type_name(a), type_name(b)>>)

\* the decimal digits of a natural number, one character each
RECURSIVE Decimal(_)
Decimal(n) ==
  IF n < 10 THEN <<SubSeq(<<"0", "1", "2", "3", "4", "5", "6", "7", "8", "9">>, n + 1, n + 1)[1]>>
  ELSE Decimal(n \div 10) \o Decimal(n % 10)

\* the digits after the decimal point of r / d, at most places of them
RECURSIVE Fraction(_, _, _)
Fraction(r, d, places) ==
  IF r = 0 \/ places = 0 THEN << >>
  ELSE Decimal((r * 10) \div d) \o Fraction((r * 10) % d, d, places - 1)

\* Debug for Value::Number: {n:.0} for a whole number (an infinity included),
\* {n} otherwise; a fraction is written to FRACTION_PLACES places
FRACTION_PLACES == 17
DisplayNumber(v) ==
  CASE v.d = 0 /\ v.n > 0 -> <<"i", "n", "f">>
    [] v.d = 0 /\ v.n < 0 -> <<"-", "i", "n", "f">>
    [] v.d = 0 /\ v.n = 0 -> <<"N", "a", "N">>
    [] OTHER ->
         (IF v.n < 0 THEN <<"-">> ELSE << >>)
           \o Decimal(Abs(v.n) \div v.d)
           \o (IF v.d = 1 THEN << >>
               ELSE <<".">> \o Fraction(Abs(v.n) % v.d, v.d, FRACTION_PLACES))

\* Display for Value and for LoxObject, as the characters printed (a name
\* counts as one character)
Display(v) ==
  CASE v.t = "str" -> v.s
    [] v.t = "bool" -> IF v.b THEN <<"t", "r", "u", "e">> ELSE <<"f", "a", "l", "s", "e">>
    [] v.t = "nil" -> <<"n", "i", "l">>
    [] v.t = "num" -> DisplayNumber(v)
    [] v.t = "fun" -> <<"<", "f", "n", " ", v.name, " ">> \o Decimal(v.idx) \o <<">">>
    [] v.t = "native" -> <<"<", "s", "t", "d", " ", v.name, ">">>
    [] v.t = "closure" -> <<"<", "f", "n", "'", v.name, " ">> \o Decimal(v.idx) \o <<">">>

\* an Add that also concatenates when only the right operand is a string
Add_either_string ==
  /\ Fetch("Add")
  /\ IF Len(stack) < 2 THEN Panic("pop")
     ELSE LET b == stack[Len(stack)]
              a == stack[Len(stack) - 1]
          IN CASE a.t = "num" /\ b.t = "num" ->
                    push(popped(2), NumAdd(a, b), Len(stack) - 2)
               [] (a.t = "str" \/ b.t = "str") /\ ~(a.t = "num" /\ b.t = "num") ->
                    push(popped(2), String(Display(a) \o Display(b)), Len(stack) - 2)
               [] OTHER ->
                    Fail(BadOperands("Binary + operator can only operate over two numbers or strings",
                                     a, b), popped(2), Len(stack) - 2)
  /\ UNCHANGED Rest

Add ==
  /\ Fetch("Add")
  /\ IF Len(stack) < 2 THEN Panic("pop")
     ELSE LET b == stack[Len(stack)]
              a == stack[Len(stack) - 1]
          IN CASE a.t = "num" /\ b.t = "num" ->
                    push(popped(2), NumAdd(a, b), Len(stack) - 2)
               [] a.t = "str" /\ ~(a.t = "num" /\ b.t = "num") ->
                    push(popped(2), String(a.s \o Display(b)), Len(stack) - 2)
               [] OTHER ->
                    Fail(BadOperands("Binary + operator can only operate over two numbers or strings",
                                     a, b), popped(2), Len(stack) - 2)
  /\ UNCHANGED Rest

Subtract ==
  /\ Fetch("Subtract")
  /\ IF Len(stack) < 2 THEN Panic("pop")
     ELSE LET b == stack[Len(stack)]
              a == stack[Len(stack) - 1]
          IN IF a.t = "num" /\ b.t = "num"
             THEN push(popped(2), NumSub(a, b), Len(stack) - 2)
             ELSE Fail(BadOperands("Binary - operator can only operate over two numbers", a, b),
                       popped(2), Len(stack) - 2)
  /\ UNCHANGED Rest

Multiply ==
  /\ Fetch("Multiply")
  /\ IF Len(stack) < 2 THEN Panic("pop")
     ELSE LET b == stack[Len(stack)]
              a == stack[Len(stack) - 1]
          IN IF a.t = "num" /\ b.t = "num"
             THEN push(popped(2), NumMul(a, b), Len(stack) - 2)
             ELSE Fail(BadOperands("Binary * operator can only operate over two numbers", a, b),
                       popped(2), Len(stack) - 2)
  /\ UNCHANGED Rest

\* a Divide that raises ZeroDivision instead of reporting it
Divide_raises ==
  /\ Fetch("Divide")
  /\ IF Len(stack) < 2 THEN Panic("pop")
     ELSE LET b == stack[Len(stack)]
              a == stack[Len(stack) - 1]
          IN IF a.t = "num" /\ b.t = "num"
             THEN IF b = Number(0)
                  THEN Fail([e |-> "ZeroDivision"], popped(2), Len(stack) - 2)
                  ELSE push(popped(2), NumDiv(a, b), Len(stack) - 2)
             ELSE Fail(BadOperands("Binary / operator can only operate over two numbers", a, b),
                       popped(2), Len(stack) - 2)
  /\ UNCHANGED <<globals, module, functionHeap, closureHeap, upvalHeap, cellVar, output, warnings>>

Divide ==
  /\ Fetch("Divide")
  /\ IF Len(stack) < 2 THEN Panic("pop") /\ UNCHANGED warnings
     ELSE LET b == stack[Len(stack)]
              a == stack[Len(stack) - 1]
          IN IF a.t = "num" /\ b.t = "num"
             THEN /\ push(popped(2), NumDiv(a, b), Len(stack) - 2)
                  /\ warnings' = IF b = Number(0)
                                 THEN Append(warnings, [e |-> "ZeroDivision"])
                                 ELSE warnings
             ELSE /\ Fail(BadOperands("Binary / operator can only operate over two numbers", a, b),
                          popped(2), Len(stack) - 2)
                  /\ UNCHANGED warnings
  /\ UNCHANGED <<globals, module, functionHeap, closureHeap, upvalHeap, cellVar, output>>

Equal ==
  /\ Fetch("Equal")
  /\ IF Len(stack) < 2 THEN Panic("pop")
     ELSE LET a == stack[Len(stack)]
              b == stack[Len(stack) - 1]
          IN push(popped(2), Boolean(equals(a, b)), Len(stack) - 2)
  /\ UNCHANGED Rest

Greater ==
  /\ Fetch("Greater")
  /\ IF Len(stack) < 2 THEN Panic("pop")
     ELSE LET b == stack[Len(stack)]
              a == stack[Len(stack) - 1]
          IN IF a.t = "num" /\ b.t = "num"
             THEN push(popped(2), Boolean(NumLess(b, a)), Len(stack) - 2)
             ELSE Fail(BadOperands("Binary > operator can only compare two numbers", a, b),
                       popped(2), Len(stack) - 2)
  /\ UNCHANGED Rest

Less ==
  /\ Fetch("Less")
  /\ IF Len(stack) < 2 THEN Panic("pop")
     ELSE LET b == stack[Len(stack)]
              a == stack[Len(stack) - 1]
          IN IF a.t = "num" /\ b.t = "num"
             THEN push(popped(2), Boolean(NumLess(a, b)), Len(stack) - 2)
             ELSE Fail(BadOperands("Binary < operator can only compare two numbers", a, b),
                       popped(2), Len(stack) - 2)
  /\ UNCHANGED Rest

PrintIns ==
  /\ Fetch("Print")
  /\ IF Len(stack) < 1 THEN Panic("pop") /\ UNCHANGED output
     ELSE /\ Continue(advanced, popped(1), Len(stack) - 1)
          /\ output' = Append(output, Display(stack[Len(stack)]))
  /\ UNCHANGED <<globals, module, functionHeap, closureHeap, upvalHeap, cellVar, warnings>>

Pop ==
  /\ Fetch("Pop")
  /\ IF Len(stack) < 1 THEN Panic("pop")
     ELSE Continue(advanced, popped(1), Len(stack) - 1)
  /\ UNCHANGED Rest

PopN ==
  /\ Fetch("PopN")
  /\ IF Len(stack) < ins.n THEN Panic("pop")
     ELSE Continue(advanced, popped(ins.n), Len(stack) - ins.n)
  /\ UNCHANGED Rest

\* HashMap::insert
insert(map, name, val) ==
  [k \in DOMAIN map \cup {name} |-> IF k = name THEN val ELSE map[k]]

DefGlobal ==
  /\ Fetch("DefGlobal")
  /\ IF ~peek(stack, 0).some THEN Panic("peek") /\ UNCHANGED globals
     ELSE /\ globals' = insert(globals, ins.name, peek(stack, 0).h)
          /\ Continue(advanced, popped(1), Len(stack) - 1)
  /\ UNCHANGED <<module, functionHeap, closureHeap, upvalHeap, cellVar, output, warnings>>

GetGlobal ==
  /\ Fetch("GetGlobal")
  /\ IF ins.name \in DOMAIN globals
     THEN push(stack, globals[ins.name], Len(stack))
     ELSE Fail([e |-> "UndefinedVariable", name |-> ins.name], stack, Len(stack))
  /\ UNCHANGED Rest

\* SetGlobal without the contains_key test: assignment creates the global
SetGlobal_creates ==
  /\ Fetch("SetGlobal")
  /\ IF ~peek(stack, 0).some THEN Panic("peek") /\ UNCHANGED globals
     ELSE /\ globals' = insert(globals, ins.name, peek(stack, 0).h)
          /\ Continue(advanced, stack, Len(stack))
  /\ UNCHANGED <<module, functionHeap, closureHeap, upvalHeap, cellVar, output, warnings>>

SetGlobal ==
  /\ Fetch("SetGlobal")
  /\ IF ins.name \notin DOMAIN globals
     THEN Fail([e |-> "UndefinedVariable", name |-> ins.name], stack, Len(stack))
          /\ UNCHANGED globals
     ELSE IF ~peek(stack, 0).some THEN Panic("peek") /\ UNCHANGED globals
     ELSE /\ globals' = insert(globals, ins.name, peek(stack, 0).h)
          /\ Continue(advanced, stack, Len(stack))
  /\ UNCHANGED <<module, functionHeap, closureHeap, upvalHeap, cellVar, output, warnings>>

\* VM::get / VM::set : the slot is relative to the top frame's start
GetLocal ==
  /\ Fetch("GetLocal")
  /\ IF top.start + ins.n >= Len(stack) THEN Panic("get")
     ELSE push(stack, stack[top.start + ins.n + 1], Len(stack))
  /\ UNCHANGED Rest

SetLocal ==
  /\ Fetch("SetLocal")
  /\ IF ~peek(stack, 0).some THEN Panic("peek")
     ELSE IF top.start + ins.n >= Len(stack) THEN Panic("set")
     ELSE Continue(advanced,
                   [stack EXCEPT ![top.start + ins.n + 1] = peek(stack, 0).h],
                   Len(stack))
  /\ UNCHANGED Rest

\* LoxUpvalue: Open(stack slot) | Closed(value)
Open(slot) == [open |-> TRUE, slot |-> slot]
Closed(val) == [open |-> FALSE, value |-> val]

\* VM::get_upvalue : frame.function.upvalues.get(slot)
get_upvalue(slot) ==
  LET ups == closureHeap[top.function].upvalues
  IN IF slot >= Len(ups) THEN None ELSE Some(ups[slot + 1])

GetUpval ==
  /\ Fetch("GetUpval")
  /\ LET up == get_upvalue(ins.n)
     IN IF ~up.some THEN Panic("get_upvalue")
        ELSE LET cell == upvalHeap[up.h]
             IN IF cell.open
                THEN IF cell.slot >= Len(stack) THEN Panic("stack.get")
                     ELSE push(stack, stack[cell.slot + 1], Len(stack))
                ELSE push(stack, cell.value, Len(stack))
  /\ UNCHANGED Rest

\* a set_upvalue that closes the upvalue over the value written, whatever
\* its state, and leaves the stack alone
SetUpval_closes ==
  /\ Fetch("SetUpval")
  /\ peek(stack, 0).some
  /\ get_upvalue(ins.n).some
  /\ Continue(advanced, stack, Len(stack))
  /\ upvalHeap' = [upvalHeap EXCEPT ![get_upvalue(ins.n).h] = Closed(peek(stack, 0).h)]
  /\ UNCHANGED <<globals, module, functionHeap, closureHeap, cellVar, output, warnings>>

\* VM::set_upvalue
SetUpval ==
  /\ Fetch("SetUpval")
  /\ IF ~peek(stack, 0).some
     THEN Panic("peek") /\ UNCHANGED upvalHeap
     ELSE LET val == peek(stack, 0).h
              up == get_upvalue(ins.n)
          IN IF ~up.some THEN Panic("get_upvalue") /\ UNCHANGED upvalHeap
             ELSE LET cell == upvalHeap[up.h]
                  IN IF cell.open
                     THEN IF cell.slot >= Len(stack)
                          THEN Panic("stack.get_mut") /\ UNCHANGED upvalHeap
                          ELSE /\ Continue(advanced, [stack EXCEPT ![cell.slot + 1] = val],
                                           Len(stack))
                               /\ UNCHANGED upvalHeap
                     ELSE /\ Continue(advanced, stack, Len(stack))
                          /\ upvalHeap' = [upvalHeap EXCEPT ![up.h] = Closed(val)]
  /\ UNCHANGED <<globals, module, functionHeap, closureHeap, cellVar, output, warnings>>

\* the upvalues the registry iterates over (entries that are not None)
RegisteredUpvals(ureg) ==
  {ureg.data[i].h : i \in {j \in 1..Len(ureg.data) : ureg.data[j].some}}

\* a close_upvals that closes nothing
close_upvals_nothing(heap, ureg, st, start, last) == [panic |-> FALSE, heap |-> heap]

\* VM::close_upvals(start, last): [panic, heap]
close_upvals(heap, ureg, st, start, last) ==
  IF ~(last < Len(st)) \/ ~(start <= last)
  THEN [panic |-> TRUE, heap |-> heap]
  ELSE LET threshold == last - start
           closing == {h \in RegisteredUpvals(ureg) :
                         heap[h].open /\ heap[h].slot >= threshold}
       IN IF \E h \in closing : heap[h].slot >= Len(st)
          THEN [panic |-> TRUE, heap |-> heap]
          ELSE [panic |-> FALSE,
                heap |-> [h \in 1..Len(heap) |->
                            IF h \in closing THEN Closed(st[heap[h].slot + 1])
                            ELSE heap[h]]]

CloseUpval ==
  /\ Fetch("CloseUpval")
  /\ LET c == close_upvals(upvalHeap, module.upvals, stack, top.start, Len(stack) - 1)
     IN IF c.panic
        THEN Panic("close_upvals") /\ UNCHANGED upvalHeap
        ELSE /\ upvalHeap' = c.heap
             /\ Continue(advanced, popped(1), Len(stack) - 1)
  /\ UNCHANGED <<globals, module, functionHeap, closureHeap, cellVar, output, warnings>>

\* (ip as isize + offset) as usize: a negative sum wraps to a huge offset
USIZE_WRAP == 1073741824
as_usize(x) == IF x < 0 THEN USIZE_WRAP + x ELSE x

Jump ==
  /\ Fetch("Jump")
  /\ Continue([advanced EXCEPT ![Len(frames)].ip = as_usize(@ + ins.n)], stack, Len(stack))
  /\ UNCHANGED Rest

JumpIfFalse ==
  /\ Fetch("JumpIfFalse")
  /\ IF ~peek(stack, 0).some THEN Panic("peek")
     ELSE IF ~truth(peek(stack, 0).h)
     THEN Continue([advanced EXCEPT ![Len(frames)].ip = as_usize(@ + ins.n)], stack, Len(stack))
     ELSE Continue(advanced, stack, Len(stack))
  /\ UNCHANGED Rest

\* VM::call with the frame's base one slot too high: at the first argument
\* instead of at the callee
call_base_at_first_argument(closure, args) ==
  LET arity == functionHeap[closureHeap[closure].fun].arity
  IN IF args # arity
     THEN Fail(UnsupportedType(<<"Expected arguments, but got", arity, args>>), stack, Len(stack))
     ELSE IF Len(frames) = FRAMES_MAX
     THEN Fail([e |-> "StackOverflow"], stack, Len(stack))
     ELSE /\ Len(frames) < MaxFrames
          /\ Continue(Append(advanced, [function |-> closure, ip |-> 0,
                                         start |-> Len(stack) - args]),
                      stack, Len(stack))

\* VM::call
call(closure, args) ==
  LET arity == functionHeap[closureHeap[closure].fun].arity
  IN IF args # arity
     THEN Fail(UnsupportedType(<<"Expected arguments, but got", arity, args>>), stack, Len(stack))
     ELSE IF Len(frames) = FRAMES_MAX
     THEN Fail([e |-> "StackOverflow"], stack, Len(stack))
     ELSE /\ Len(frames) < MaxFrames
          /\ Continue(Append(advanced, [function |-> closure, ip |-> 0,
                                         start |-> Len(stack) - args - 1]),
                      stack, Len(stack))

\* the value std clock can return
ClockValues == {Number(1000), Number(1001)}

\* NativeFunction::call on the slice handed over by call_value
native_call(native, args, res) ==
  IF Len(args) # native.arity
  THEN Fail(UnsupportedType(<<"Expected arguments, but got", native.arity, Len(args)>>),
            stack, Len(stack))
  ELSE push(pop_to(stack, Len(stack) - ins.n - 1), res, Len(stack) - ins.n - 1)

\* the slice &self.stack[start..self.stack.len()-1] that call_value hands to
\* a native, start being stack.len() - args - 1
NativeArgs ==
  LET start == Len(stack) - ins.n - 1
  IN SubSeq(stack, start + 1, Len(stack) - 1)

\* VM::call_value
Call ==
  /\ Fetch("Call")
  /\ LET callee == peek(stack, ins.n)
     IN IF ~callee.some THEN Panic("peek")
        ELSE CASE callee.h.t = "fun" -> Panic("unreachable: Functions should be wrapped as closures")
               [] callee.h.t = "native" ->
                    IF callee.h.idx >= Len(module.natives) THEN Panic("natives.get")
                    ELSE \E res \in ClockValues :
                           native_call(module.natives[callee.h.idx + 1], NativeArgs, res)
               [] callee.h.t = "closure" ->
                    LET function == GcGet(module.closures, callee.h.idx)
                    IN IF ~function.some THEN Panic("closures.get")
                       ELSE call(function.h, ins.n)
               [] OTHER ->
                    Fail(UnsupportedType(<<"Can only call functions and classes", type_name(callee.h)>>),
                         stack, Len(stack))
  /\ UNCHANGED Rest

\* VM::capture_upval looks for an open upvalue of slot in registry order:
\* the handle found, or 0
RECURSIVE FindOpen(_, _, _, _)
FindOpen(ureg, heap, slot, k) ==
  IF k > Len(ureg.data) THEN 0
  ELSE IF ~ureg.data[k].some THEN FindOpen(ureg, heap, slot, k + 1)
  ELSE LET cell == heap[ureg.data[k].h]
       IN IF ~cell.open THEN FindOpen(ureg, heap, slot, k + 1)
          ELSE IF cell.slot = slot THEN ureg.data[k].h
          ELSE IF cell.slot < slot THEN 0
          ELSE FindOpen(ureg, heap, slot, k + 1)

\* VM::capture_upval on the state k = [uh, cv, ureg, ch, panic, got]
capture_upval(k, idx, creg) ==
  LET slot == top.start + idx
      found == FindOpen(k.ureg, k.uh, slot, 1)
  IN IF found # 0 THEN [k EXCEPT !.got = found]
     ELSE LET h == Len(k.uh) + 1
              count(u) == UpvalCount(u, k.ureg, k.ch, frames, creg)
          IN [k EXCEPT !.uh = Append(@, Open(slot)),
                       !.cv = Append(@, IF slot < Len(slotId) THEN slotId[slot + 1] ELSE -1),
                       !.ureg = GcInsert(GcStress(@, "upvalue", count), h).gc,
                       !.got = h]

\* the loop of the Closure arm over the capture descriptors, pushing each
\* upvalue onto the closure target
RECURSIVE CaptureAll(_, _, _, _, _)
CaptureAll(upvals, i, k, target, creg) ==
  IF i > Len(upvals) \/ k.panic THEN k
  ELSE LET is_local == upvals[i][1]
           idx == upvals[i][2]
           k1 == IF is_local THEN capture_upval(k, idx, creg)
                 ELSE IF get_upvalue(idx).some
                      THEN [k EXCEPT !.got = get_upvalue(idx).h]
                      ELSE [k EXCEPT !.panic = TRUE]
       IN IF k1.panic THEN k1
          ELSE CaptureAll(upvals, i + 1,
                          [k1 EXCEPT !.ch[target].upvalues = Append(@, k1.got)],
                          target, creg)

ClosureIns ==
  /\ Fetch("Closure")
  /\ LET fun == GcGet(module.functions, ins.n)
     IN IF ~fun.some
        THEN /\ Panic("functions.get")
             /\ UNCHANGED <<module, closureHeap, upvalHeap, cellVar>>
        ELSE LET h == Len(closureHeap) + 1
                 ch0 == Append(closureHeap, [fun |-> fun.h, upvalues |-> << >>])
                 pushed == GcInsert(GcStress(module.closures, "closure", ClosureCount), h)
                 last == GcLast(pushed.gc).h
                 name == functionHeap[ch0[last].fun].name
                 k == CaptureAll(ins.upvals, 1,
                                 [uh |-> upvalHeap, cv |-> cellVar, ureg |-> module.upvals,
                                  ch |-> ch0, panic |-> FALSE, got |-> 0],
                                 last, pushed.gc)
             IN IF k.panic
                THEN /\ Panic("get_upvalue")
                     /\ UNCHANGED <<module, closureHeap, upvalHeap, cellVar>>
                ELSE /\ module' = [module EXCEPT !.closures = pushed.gc, !.upvals = k.ureg]
                     /\ closureHeap' = k.ch
                     /\ upvalHeap' = k.uh
                     /\ cellVar' = k.cv
                     /\ push(stack, Closure(name, pushed.idx), Len(stack))
  /\ UNCHANGED <<globals, functionHeap, output, warnings>>

\* VM::stack_trace on the frames fr: the function named on each line
stack_trace(fr) ==
  [i \in 1..Len(fr) |-> functionHeap[closureHeap[fr[Len(fr) + 1 - i].function].fun].name]

\* interpret returns Ok(()) and VM::run returns Ok(())
Finish(how, fr, st, kept) ==
  /\ frames' = fr
  /\ stack' = st
  /\ slotId' = Regen(kept, Len(st))
  /\ nextId' = nextId
  /\ status' = "idle"
  /\ result' = [kind |-> "Ok", how |-> how]
  /\ UNCHANGED <<debug_assertions, scanner, tokens, runs, source, compiled, objects>>

Return ==
  /\ Fetch("Return")
  /\ IF Len(stack) < 1
     THEN Panic("pop") /\ UNCHANGED upvalHeap
     ELSE LET res == stack[Len(stack)]
              st == popped(1)
              frame == top
              fr == SubSeq(advanced, 1, Len(frames) - 1)
          IN IF Len(fr) = 0
             THEN Finish("Return", fr, st, Len(st)) /\ UNCHANGED upvalHeap
             ELSE LET c == close_upvals(upvalHeap, module.upvals, st, frame.start, frame.start)
                  IN IF c.panic
                     THEN Panic("close_upvals") /\ UNCHANGED upvalHeap
                     ELSE \* the push cannot overflow: frame.start < stack.len()
                          /\ upvalHeap' = c.heap
                          /\ Continue(fr, Append(pop_to(st, frame.start), res), frame.start)
  /\ UNCHANGED <<globals, module, functionHeap, closureHeap, cellVar, output, warnings>>

\* VM::advance returns None: the loop of interpret breaks and it returns Ok(())
EndOfChunk ==
  /\ Running
  /\ ~(top.ip < Len(chunk))
  /\ Finish("EndOfChunk", frames, stack, Len(stack))
  /\ UNCHANGED Rest

-----------------------------------------------------------------------------
(* Compiled programs.  Each is the list of functions that compiling the    *)
(* source in the comment appends to module.functions, the script last;     *)
(* base is the registry index the first of them receives.                *)

Num(n) == Constant(Number(n))
Str(s) == Constant(String(s))
Captures(n, upvals, base) == OpClosure(base + n, upvals)
Script(code) == LoxFunction("<script>", 0, 0, code)
ReturnNil == <<Op("Nil"), Op("Return")>>

\* fun add(a, b) { return a + b; }  print add(1, 2);  add(1);
ProgCall(base) == <<
  LoxFunction("add", 2, 0, <<OpN("GetLocal", 1), OpN("GetLocal", 2), Op("Add"), Op("Return")>>),
  Script(
  <<Captures(0, << >>, base), [op |-> "DefGlobal", name |-> "add"],
    [op |-> "GetGlobal", name |-> "add"], Num(1), Num(2), OpN("Call", 2), Op("Print"),
    [op |-> "GetGlobal", name |-> "add"], Num(1), OpN("Call", 1), Op("Pop")>>
  \o ReturnNil)>>

\* fun f() { print 1; }  f(); print 2;
ProgNoReturn(base) == <<
  LoxFunction("f", 0, 0, <<Num(1), Op("Print")>>),
  Script(
  <<Captures(0, << >>, base), [op |-> "DefGlobal", name |-> "f"],
    [op |-> "GetGlobal", name |-> "f"], OpN("Call", 0), Op("Pop"),
    Num(2), Op("Print")>>
  \o ReturnNil)>>

\* fun f() { f(); return; }  f();
ProgRecurse(base) == <<
  LoxFunction("f", 0, 0,
    <<[op |-> "GetGlobal", name |-> "f"], OpN("Call", 0), Op("Pop")>> \o ReturnNil),
  Script(
  <<Captures(0, << >>, base), [op |-> "DefGlobal", name |-> "f"],
    [op |-> "GetGlobal", name |-> "f"], OpN("Call", 0), Op("Pop")>>
  \o ReturnNil)>>

\* fun outer() { var x = "outside"; fun inner() { print x; return; }
\*               x = "changed"; return inner; }
\* var x = "global"; var closure = outer(); closure();
ProgOffStack(base) == <<
  LoxFunction("inner", 0, 1, <<OpN("GetUpval", 0), Op("Print")>> \o ReturnNil),
  LoxFunction("outer", 0, 0,
    <<Str(<<"outside">>), Captures(0, <<<<TRUE, 1>>>>, base),
      Str(<<"changed">>), OpN("SetLocal", 1), Op("Pop"),
      OpN("GetLocal", 2), Op("Return")>>),
  Script(
  <<Captures(1, << >>, base), [op |-> "DefGlobal", name |-> "outer"],
    Str(<<"global">>), [op |-> "DefGlobal", name |-> "x"],
    [op |-> "GetGlobal", name |-> "outer"], OpN("Call", 0),
    [op |-> "DefGlobal", name |-> "closure"],
    [op |-> "GetGlobal", name |-> "closure"], OpN("Call", 0), Op("Pop")>>
  \o ReturnNil)>>

\* the three calls main(); globalSet(); globalGet(); of the closure programs
SetThenGet(main, base) ==
  <<Op("Nil"), [op |-> "DefGlobal", name |-> "globalSet"],
    Op("Nil"), [op |-> "DefGlobal", name |-> "globalGet"],
    Captures(main, << >>, base), [op |-> "DefGlobal", name |-> "main"],
    [op |-> "GetGlobal", name |-> "main"], OpN("Call", 0), Op("Pop"),
    [op |-> "GetGlobal", name |-> "globalSet"], OpN("Call", 0), Op("Pop"),
    [op |-> "GetGlobal", name |-> "globalGet"], OpN("Call", 0), Op("Pop")>>
  \o ReturnNil
\* fun set() { a = "updated"; return; }   fun get() { print a; return; }
FunSet == LoxFunction("set", 0, 1,
  <<Str(<<"updated">>), OpN("SetUpval", 0), Op("Pop")>> \o ReturnNil)
FunGet == LoxFunction("get", 0, 1, <<OpN("GetUpval", 0), Op("Print")>> \o ReturnNil)
\* globalSet = set; globalGet = get; return;   with set, get in slots s, s + 1
Export(s) ==
  <<OpN("GetLocal", s), [op |-> "SetGlobal", name |-> "globalSet"], Op("Pop"),
    OpN("GetLocal", s + 1), [op |-> "SetGlobal", name |-> "globalGet"], Op("Pop")>>
  \o ReturnNil

\* var globalSet; var globalGet;
\* fun main() { var a = "initial"; fun set() {..} fun get() {..}
\*              globalSet = set; globalGet = get; return; }
\* main(); globalSet(); globalGet();
ProgShared(base) == <<
  FunSet, FunGet,
  LoxFunction("main", 0, 0,
    <<Str(<<"initial">>), Captures(0, <<<<TRUE, 1>>>>, base),
      Captures(1, <<<<TRUE, 1>>>>, base)>> \o Export(2)),
  Script(SetThenGet(2, base))>>

\* as ProgShared, but main first declares var y = 0; fun f() { y; return; }
ProgSharedLate(base) == <<
  LoxFunction("f", 0, 1, <<OpN("GetUpval", 0), Op("Pop")>> \o ReturnNil),
  FunSet, FunGet,
  LoxFunction("main", 0, 0,
    <<Num(0), Captures(0, <<<<TRUE, 1>>>>, base), Str(<<"initial">>),
      Captures(1, <<<<TRUE, 3>>>>, base), Captures(2, <<<<TRUE, 3>>>>, base)>>
    \o Export(4)),
  Script(SetThenGet(3, base))>>

\* as ProgShared, but main calls fun g() { return; } between the two
\* inner declarations:  var a; fun g() {..} fun set() {..} g(); fun get() {..}
ProgSharedCall(base) == <<
  LoxFunction("g", 0, 0, ReturnNil),
  FunSet, FunGet,
  LoxFunction("main", 0, 0,
    <<Str(<<"initial">>), Captures(0, << >>, base), Captures(1, <<<<TRUE, 1>>>>, base),
      OpN("GetLocal", 2), OpN("Call", 0), Op("Pop"),
      Captures(2, <<<<TRUE, 1>>>>, base)>>
    \o Export(3)),
  Script(SetThenGet(3, base))>>

\* var get;
\* { var a = 1; { var b = 2; fun g() { print a + b; return; } get = g; } a = 3; get(); }
ProgBlock(base) == <<
  LoxFunction("g", 0, 2,
    <<OpN("GetUpval", 0), OpN("GetUpval", 1), Op("Add"), Op("Print")>> \o ReturnNil),
  Script(
  <<Op("Nil"), [op |-> "DefGlobal", name |-> "get"],
    Num(1), Num(2), Captures(0, <<<<TRUE, 1>>, <<TRUE, 2>>>>, base),
    OpN("GetLocal", 3), [op |-> "SetGlobal", name |-> "get"], Op("Pop"),
    OpN("PopN", 1), Op("CloseUpval"),
    Num(3), OpN("SetLocal", 1), Op("Pop"),
    [op |-> "GetGlobal", name |-> "get"], OpN("Call", 0), Op("Pop"),
    Op("CloseUpval")>>
  \o ReturnNil)>>

\* fun outer() { var x = 1; fun mid() { fun inner() { x = x + 1; print x; return; }
\*               return inner; } return mid; }
\* var m = outer(); var i = m(); i(); i();
ProgNested(base) == <<
  LoxFunction("inner", 0, 1,
    <<OpN("GetUpval", 0), Num(1), Op("Add"), OpN("SetUpval", 0), Op("Pop"),
      OpN("GetUpval", 0), Op("Print")>> \o ReturnNil),
  LoxFunction("mid", 0, 1,
    <<Captures(0, <<<<FALSE, 0>>>>, base), OpN("GetLocal", 1), Op("Return")>>),
  LoxFunction("outer", 0, 0,
    <<Num(1), Captures(1, <<<<TRUE, 1>>>>, base), OpN("GetLocal", 2), Op("Return")>>),
  Script(
  <<Captures(2, << >>, base), [op |-> "DefGlobal", name |-> "outer"],
    [op |-> "GetGlobal", name |-> "outer"], OpN("Call", 0), [op |-> "DefGlobal", name |-> "m"],
    [op |-> "GetGlobal", name |-> "m"], OpN("Call", 0), [op |-> "DefGlobal", name |-> "i"],
    [op |-> "GetGlobal", name |-> "i"], OpN("Call", 0), Op("Pop"),
    [op |-> "GetGlobal", name |-> "i"], OpN("Call", 0), Op("Pop")>>
  \o ReturnNil)>>

\* fun a() { b(); }  fun b() { c(); }  fun c() { c("too", "many"); }  a();
ProgTrace(base) == <<
  LoxFunction("a", 0, 0, <<[op |-> "GetGlobal", name |-> "b"], OpN("Call", 0), Op("Pop")>>
                         \o ReturnNil),
  LoxFunction("b", 0, 0, <<[op |-> "GetGlobal", name |-> "c"], OpN("Call", 0), Op("Pop")>>
                         \o ReturnNil),
  LoxFunction("c", 0, 0, <<[op |-> "GetGlobal", name |-> "c"], Str(<<"too">>), Str(<<"many">>),
                           OpN("Call", 2), Op("Pop")>>
                         \o ReturnNil),
  Script(
  <<Captures(0, << >>, base), [op |-> "DefGlobal", name |-> "a"],
    Captures(1, << >>, base), [op |-> "DefGlobal", name |-> "b"],
    Captures(2, << >>, base), [op |-> "DefGlobal", name |-> "c"],
    [op |-> "GetGlobal", name |-> "a"], OpN("Call", 0), Op("Pop")>>
  \o ReturnNil)>>

ProgramNames ==
  {"Call", "NoReturn", "Recurse", "OffStack", "Shared", "SharedLate", "SharedCall",
   "Block", "Nested", "Trace"}

Program(name, base) ==
  CASE name = "Call" -> ProgCall(base)
    [] name = "NoReturn" -> ProgNoReturn(base)
    [] name = "Recurse" -> ProgRecurse(base)
    [] name = "OffStack" -> ProgOffStack(base)
    [] name = "Shared" -> ProgShared(base)
    [] name = "SharedLate" -> ProgSharedLate(base)
    [] name = "SharedCall" -> ProgSharedCall(base)
    [] name = "Block" -> ProgBlock(base)
    [] name = "Nested" -> ProgNested(base)
    [] name = "Trace" -> ProgTrace(base)

-----------------------------------------------------------------------------
(* Compiler  (compiler/mod.rs) *)

LOCALS_MAX == 512
JUMP_MAX == 65535
MAX_ARGS == 255

NoErr == [e |-> "none"]
\* ParseError::Error { level, message }
ParseErrorAt(level, message) == [e |-> "Error", level |-> level, message |-> message]
\* ParseError::UnexpectedToken { message, offending }
UnexpectedToken(message, offending) ==
  [e |-> "UnexpectedToken", message |-> message, offending |-> offending]
\* LoxError::get_level for ParseError
get_level(err) == IF err.e = "Error" THEN err.level ELSE "Error"

Local(name, depth) == [name |-> name, depth |-> depth, captured |-> FALSE]
NoCompiler == [none |-> TRUE]

\* Compiler::build
build(name, fun_type) ==
  [function |-> LoxFunction(name, 0, 0, << >>),
   fun_type |-> fun_type,
   locals |-> <<Local(name, 0)>>,
   scope_depth |-> 0,
   enclosing |-> NoCompiler,
   upvalues |-> << >>]

\* Compiler::emit
emit(c, i) == [c EXCEPT !.function.code = Append(@, i)]

begin_scope(c) == [c EXCEPT !.scope_depth = @ + 1]

\* Compiler::end_scope that only leaves the scope: its locals are neither
\* removed nor popped
end_scope_keeps_locals(c) == [c EXCEPT !.scope_depth = @ - 1]

\* a loop of Compiler::end_scope that pops every local of the scope with one
\* PopN, captured or not
end_scope_loop_pops_all(c, pops) ==
  LET gone == {i \in 1..Len(c.locals) : c.locals[i].depth > c.scope_depth}
  IN IF gone = {} THEN c
     ELSE emit([c EXCEPT !.locals = SubSeq(@, 1, Len(@) - Cardinality(gone))],
               OpN("PopN", pops + Cardinality(gone)))

\* the loop of Compiler::end_scope on [c, pops]
RECURSIVE end_scope_loop(_, _)
end_scope_loop(c, pops) ==
  IF Len(c.locals) > 0 /\ c.locals[Len(c.locals)].depth > c.scope_depth
  THEN LET rest == [c EXCEPT !.locals = SubSeq(@, 1, Len(@) - 1)]
       IN IF c.locals[Len(c.locals)].captured
          THEN end_scope_loop(
                 emit(IF pops > 0 THEN emit(rest, OpN("PopN", pops)) ELSE rest,
                      Op("CloseUpval")), 0)
          ELSE end_scope_loop(rest, pops + 1)
  ELSE IF pops > 0 THEN emit(c, OpN("PopN", pops)) ELSE c

end_scope(c) == end_scope_loop([c EXCEPT !.scope_depth = @ - 1], 0)

\* Compiler::add_local with the limit tested one entry late
add_local_limit_late(c, name) ==
  IF Len(c.locals) > LOCALS_MAX
  THEN [c |-> c,
        err |-> [e |-> "StackOverflow", message |-> "Too many local variables in function"]]
  ELSE [c |-> [c EXCEPT !.locals = Append(@, Local(name, -1))], err |-> NoErr]

\* Compiler::add_local : [c, err]
add_local(c, name) ==
  IF Len(c.locals) = LOCALS_MAX
  THEN [c |-> c,
        err |-> [e |-> "StackOverflow", message |-> "Too many local variables in function"]]
  ELSE [c |-> [c EXCEPT !.locals = Append(@, Local(name, -1))], err |-> NoErr]

\* the scan of Compiler::declare_variable, from the last local down: it
\* stops at the first local of an enclosing scope, and finds name if a local
\* it visits before that carries it
declared_in_scope(c, name) ==
  \E i \in 1..Len(c.locals) :
    /\ c.locals[i].name = name
    /\ \A j \in i..Len(c.locals) :
         ~(c.locals[j].depth # -1 /\ c.locals[j].depth < c.scope_depth)

\* a declare_variable that rejects a name already declared in the scope
declare_variable_once(c, name) ==
  IF c.scope_depth = 0 THEN [c |-> c, err |-> NoErr]
  ELSE IF Len(c.locals) # 0 /\ declared_in_scope(c, name)
  THEN [c |-> c,
        err |-> ParseErrorAt("Error", <<"Variable is already declared in this scope", name>>)]
  ELSE add_local(c, name)

\* Compiler::declare_variable : [c, err]
declare_variable(c, name) ==
  IF c.scope_depth = 0 THEN [c |-> c, err |-> NoErr]
  ELSE IF Len(c.locals) = 0 THEN add_local(c, name)
  ELSE LET dup == declared_in_scope(c, name)
           added == add_local(c, name)
       IN IF added.err # NoErr THEN added
          ELSE IF dup
          THEN [c |-> added.c,
                err |-> ParseErrorAt("Warning", <<"Variable is already declared in this scope", name>>)]
          ELSE added

\* Compiler::mark_init
mark_init(c) ==
  IF c.scope_depth = 0 THEN c
  ELSE [c EXCEPT !.locals[Len(c.locals)].depth = c.scope_depth]

\* what Compiler::resolve_upvalue does to the enclosing compiler c when the
\* name resolves to its local idx
capture_local(c, idx) == [c EXCEPT !.locals[idx + 1].captured = TRUE]

\* a resolve_local that lets a declared but undefined local be read
resolve_local_undefined_too(c, name) ==
  LET named == {i \in 1..Len(c.locals) : c.locals[i].name = name}
  IN IF named = {} THEN [found |-> FALSE, idx |-> 0, err |-> NoErr]
     ELSE [found |-> TRUE, idx |-> SetMax(named) - 1, err |-> NoErr]

\* Compiler::resolve_local : [found, idx, err]; the scan from the last local
\* down stops at the first local named name
resolve_local(c, name) ==
  LET named == {i \in 1..Len(c.locals) : c.locals[i].name = name}
  IN IF named = {} THEN [found |-> FALSE, idx |-> 0, err |-> NoErr]
     ELSE LET i == SetMax(named)
          IN IF c.locals[i].depth = -1
             THEN [found |-> FALSE, idx |-> 0,
                   err |-> ParseErrorAt("Error", <<"Can't read local variable in its own initializer", name>>)]
             ELSE [found |-> TRUE, idx |-> i - 1, err |-> NoErr]

\* Compiler::patch_jump : [c, err]
patch_jump(c, offset) ==
  LET code == c.function.code
      jump == Len(code) - offset - 1
  IN IF jump > JUMP_MAX
     THEN [c |-> c, err |-> [e |-> "InvalidJump", message |-> "Too much code to jump over"]]
     ELSE IF code[offset + 1].op \in {"Jump", "JumpIfFalse"}
     THEN [c |-> [c EXCEPT !.function.code[offset + 1].n = jump], err |-> NoErr]
     ELSE [c |-> c, err |-> [e |-> "InvalidJump", message |-> "Not a jump instruction"]]

\* Compiler::emit_loop : [c, err]
emit_loop(c, start) ==
  LET code == c.function.code
      offset == Len(code) + 1 - start
  IN IF start >= Len(code)
     THEN [c |-> c, err |-> [e |-> "InvalidJump", message |-> "Cannot jump ahead when looping"]]
     ELSE IF offset > JUMP_MAX
     THEN [c |-> c, err |-> [e |-> "InvalidJump", message |-> "Loop body too large"]]
     ELSE [c |-> emit(c, OpN("Jump", -offset)), err |-> NoErr]

-----------------------------------------------------------------------------
(* Parser  (compiler/parser/mod.rs, compiler/parser/rules.rs) *)

\* Token kinds; Number, String and Identifier carry their payload
Tok(kind) == [kind |-> kind]
TNumber(n) == [kind |-> "Number", n |-> n]
TString(s) == [kind |-> "String", s |-> s]
TIdent(name) == [kind |-> "Identifier", name |-> name]
EOF == Tok("EOF")
Dummy == Tok("Dummy")

\* TokenType::get_pair
get_pair(kind) ==
  CASE kind = "LeftParen" -> "RightParen"
    [] kind = "LeftBrace" -> "RightBrace"
    [] OTHER -> "Dummy"

\* enum Precedence, by discriminant
Precedence ==
  [None |-> 0, Sequence |-> 1, Assignment |-> 2, Or |-> 3, And |-> 4, Equality |-> 5,
   Comparision |-> 6, Term |-> 7, Factor |-> 8, Unary |-> 9, Call |-> 10, Primary |-> 11]

\* Precedence::update : From<usize> maps anything out of range to None
update(prec, val) == IF prec + val \in 1..11 THEN prec + val ELSE 0

\* ParseRule::from(&TokenType)
Rule(prefix, infix, prec) == [prefix |-> prefix, infix |-> infix, prec |-> prec]
ParseRule(kind) ==
  CASE kind = "EOF" -> Rule("None", "None", Precedence.None)
    [] kind = "LeftParen" -> Rule("Group", "Call", Precedence.Call)
    [] kind = "Minus" -> Rule("Unary", "Binary", Precedence.Term)
    [] kind = "Plus" -> Rule("None", "Binary", Precedence.Term)
    [] kind \in {"Slash", "Star"} -> Rule("None", "Binary", Precedence.Factor)
    [] kind = "Bang" -> Rule("Unary", "None", Precedence.None)
    [] kind \in {"BangEqual", "EqualEqual"} -> Rule("None", "Binary", Precedence.Equality)
    [] kind \in {"Greater", "GreaterEqual", "Less", "LessEqual"} ->
         Rule("None", "Binary", Precedence.Comparision)
    [] kind = "And" -> Rule("None", "And", Precedence.And)
    [] kind = "Or" -> Rule("None", "Or", Precedence.Or)
    [] kind = "Number" -> Rule("Number", "None", Precedence.None)
    [] kind \in {"True", "False", "Nil"} -> Rule("Literal", "None", Precedence.None)
    [] kind = "String" -> Rule("String", "None", Precedence.None)
    [] kind = "Identifier" -> Rule("Variable", "None", Precedence.None)
    [] kind = "Comma" -> Rule("None", "Binary", Precedence.Sequence)
    [] OTHER -> Rule("None", "None", Precedence.None)

\* The parser while it runs.  toks is what the scanner yields, EOF last, and
\* pos the number of tokens taken from it; err is the Err(_) being
\* propagated by ?; crashed records a panic.
\* Scanner::next : None once EOF was emitted
ScannerNext(p) == IF p.pos >= Len(p.toks) THEN None ELSE Some(p.toks[p.pos + 1])

Good(p) == ~p.crashed /\ p.err = NoErr
Then(p, F(_)) == IF Good(p) THEN F(p) ELSE p
Raise(p, err) == [p EXCEPT !.err = err]
\* apply a Compiler method returning PResult to the current compiler
OnCompiler(p, r) == [p EXCEPT !.compiler = r.c, !.err = r.err]
Emit(p, i) == [p EXCEPT !.compiler = emit(@, i)]
Code(p) == p.compiler.function.code

\* Parser::advance
RECURSIVE AdvanceLoop(_)
AdvanceLoop(p) ==
  LET maybe_next == ScannerNext(p)
  IN IF ~maybe_next.some THEN [p EXCEPT !.crashed = TRUE]
     ELSE LET q == [p EXCEPT !.pos = @ + 1]
              t == maybe_next.h
          IN CASE t.kind = "Error" ->
                    IF p.panic_mode THEN AdvanceLoop(q)
                    ELSE AdvanceLoop([q EXCEPT !.panic_mode = TRUE,
                                               !.diagnostics = Append(@, [e |-> "ScanError"])])
               [] t.kind \in {"Comment", "BlockComment", "Whitespace"} -> AdvanceLoop(q)
               [] OTHER -> [q EXCEPT !.prev_token = p.current_token, !.current_token = t]
advance(p) == AdvanceLoop(p)

\* Parser::new
ParserNew(toks, base) ==
  advance([toks |-> toks, pos |-> 0, current_token |-> Dummy, prev_token |-> Dummy,
           panic_mode |-> FALSE, diagnostics |-> << >>, reported |-> << >>,
           compiler |-> build("<script>", "Script"), functions |-> << >>, base |-> base,
           crashed |-> FALSE, err |-> NoErr])

is(p, kind) == p.current_token.kind = kind
is_at_end(p) == p.current_token.kind = "EOF"
take(p, kind) == IF is(p, kind) THEN advance(p) ELSE p
unexpected(p, msg) == UnexpectedToken(msg, p.current_token)
consume(p, kind, msg) == IF is(p, kind) THEN advance(p) ELSE Raise(p, unexpected(p, msg))
consume_ident(p, msg) == consume(p, "Identifier", msg)

\* Parser::consume_var : the identifier is left in prev_token
consume_var(p, msg) ==
  Then(consume_ident(p, msg), LAMBDA q :
    LET r == declare_variable(q.compiler, q.prev_token.name)
    IN IF r.err = NoErr THEN OnCompiler(q, r)
       ELSE IF get_level(r.err) = "Error" THEN OnCompiler(q, r)
       ELSE [q EXCEPT !.compiler = r.c, !.reported = Append(@, r.err)])

\* Parser::sync
RECURSIVE sync(_)
sync(p) ==
  IF p.crashed THEN p
  ELSE IF is_at_end(p) THEN [p EXCEPT !.panic_mode = FALSE]
  ELSE IF is(p, "Semicolon") THEN advance(p)
  ELSE IF p.current_token.kind \in
            {"Class", "For", "Fun", "If", "Print", "Return", "Var", "While"} THEN p
  ELSE sync(advance(p))

\* Parser::emit_return
emit_return(p) == Emit(Emit(p, Op("Nil")), Op("Return"))

\* Parser::define_var
define_var(p, name) ==
  IF p.compiler.scope_depth > 0 THEN [p EXCEPT !.compiler = mark_init(@)]
  ELSE Emit(p, [op |-> "DefGlobal", name |-> name])

(* Expressions *)
\* a call of one of the methods of Parser that call each other: Parser
\* dispatches on the method called
RECURSIVE Parser(_, _, _)
call_parse_precedence(p, prec) == Parser("parse_precedence", p, prec)
call_statement(p) == Parser("statement", p, 0)
call_declaration(p) == Parser("declaration", p, 0)

\* Parser::parse_expr
parse_expr(p) == call_parse_precedence(p, Precedence.Sequence)

parse_number(p) == Emit(p, Constant(Number(p.prev_token.n)))

parse_literal(p) ==
  Emit(p, CASE p.prev_token.kind = "True" -> Op("True")
            [] p.prev_token.kind = "False" -> Op("False")
            [] OTHER -> Op("Nil"))

parse_string(p) == Emit(p, Constant(String(p.prev_token.s)))

\* Parser::named_variable
named_variable(p, name, can_assign) ==
  LET arg == resolve_local(p.compiler, name)
  IN IF arg.err # NoErr THEN Raise(p, arg.err)
     ELSE IF can_assign /\ is(p, "Equal")
     THEN Then(call_parse_precedence(advance(p), Precedence.Assignment), LAMBDA q :
            Emit(q, IF arg.found THEN OpN("SetLocal", arg.idx)
                    ELSE [op |-> "SetGlobal", name |-> name]))
     ELSE Emit(p, IF arg.found THEN OpN("GetLocal", arg.idx)
                  ELSE [op |-> "GetGlobal", name |-> name])

parse_variable(p, can_assign) == named_variable(p, p.prev_token.name, can_assign)

\* the loop of Parser::argument_list : [p, count]
RECURSIVE argument_loop(_, _)
argument_loop(p, count) ==
  LET q == call_parse_precedence(p, Precedence.Assignment)
  IN IF ~Good(q) THEN [p |-> q, count |-> count]
     ELSE IF count = MAX_ARGS
     THEN [p |-> Raise(q, ParseErrorAt("Error", "Can't have more than 255 arguments")),
           count |-> count]
     ELSE IF is(q, "Comma") THEN argument_loop(advance(q), count + 1)
     ELSE [p |-> q, count |-> count + 1]

argument_list(p) ==
  LET r == IF ~is(p, "RightParen") THEN argument_loop(p, 0) ELSE [p |-> p, count |-> 0]
  IN [p |-> Then(r.p, LAMBDA q : consume(q, "RightParen", "Expected ) after arguments")),
      count |-> r.count]

parse_call(p) ==
  LET r == argument_list(p)
  IN Then(r.p, LAMBDA q : Emit(q, OpN("Call", r.count)))

PatchJump(p, offset) == OnCompiler(p, patch_jump(p.compiler, offset))

parse_and(p) ==
  LET end_jmp == Len(Code(p))
      p1 == Emit(Emit(p, OpN("JumpIfFalse", -1)), Op("Pop"))
  IN Then(call_parse_precedence(p1, Precedence.And), LAMBDA q : PatchJump(q, end_jmp))

parse_or(p) ==
  LET else_jmp == Len(Code(p))
      end_jmp == else_jmp + 1
      p1 == Emit(Emit(p, OpN("JumpIfFalse", -1)), OpN("Jump", -1))
  IN Then(PatchJump(p1, else_jmp), LAMBDA p2 :
       Then(call_parse_precedence(Emit(p2, Op("Pop")), Precedence.Or), LAMBDA q :
         PatchJump(q, end_jmp)))

parse_group(p) ==
  Then(parse_expr(p), LAMBDA q : consume(q, "RightParen", "Expected ) after expression"))

parse_unary(p) ==
  LET op == p.prev_token
  IN Then(call_parse_precedence(p, Precedence.Unary), LAMBDA q :
       Emit(q, IF op.kind = "Minus" THEN Op("Negate") ELSE Op("Not")))

\* the instructions Parser::parse_binary emits for an operator
BinaryCode(kind) ==
  CASE kind = "Plus" -> <<Op("Add")>>
    [] kind = "Minus" -> <<Op("Subtract")>>
    [] kind = "Star" -> <<Op("Multiply")>>
    [] kind = "Slash" -> <<Op("Divide")>>
    [] kind = "BangEqual" -> <<Op("Equal"), Op("Not")>>
    [] kind = "EqualEqual" -> <<Op("Equal")>>
    [] kind = "Greater" -> <<Op("Greater")>>
    [] kind = "GreaterEqual" -> <<Op("Less"), Op("Not")>>
    [] kind = "Less" -> <<Op("Less")>>
    [] kind = "LessEqual" -> <<Op("Greater"), Op("Not")>>

parse_binary(p, can_seq) ==
  LET op == p.prev_token
      rule == ParseRule(op.kind)
  IN IF can_seq /\ op.kind = "Comma" THEN p
     ELSE Then(call_parse_precedence(p, update(rule.prec, 1)), LAMBDA q :
            IF op.kind = "Comma" THEN [q EXCEPT !.crashed = TRUE]
            ELSE [q EXCEPT !.compiler.function.code = @ \o BinaryCode(op.kind)])

\* Parser::parse_rule
parse_rule(p, rule, prec, none_return) ==
  CASE rule = "Group" -> parse_group(p)
    [] rule = "Binary" -> parse_binary(p, prec <= Precedence.Sequence)
    [] rule = "Unary" -> parse_unary(p)
    [] rule = "Number" -> parse_number(p)
    [] rule = "Literal" -> parse_literal(p)
    [] rule = "String" -> parse_string(p)
    [] rule = "Variable" -> parse_variable(p, prec <= Precedence.Assignment)
    [] rule = "Call" -> parse_call(p)
    [] rule = "And" -> parse_and(p)
    [] rule = "Or" -> parse_or(p)
    [] OTHER -> Raise(p, none_return)

\* the infix loop of Parser::parse_precedence
RECURSIVE infix_loop(_, _)
infix_loop(p, prec) ==
  IF ~Good(p) THEN p
  ELSE IF prec <= ParseRule(p.current_token.kind).prec
  THEN LET q == advance(p)
       IN IF q.crashed THEN q
          ELSE infix_loop(parse_rule(q, ParseRule(q.prev_token.kind).infix, prec, NoErr), prec)
  ELSE p

parse_precedence(p, prec) ==
  LET p1 == advance(p)
      prev == p1.prev_token
  IN IF p1.crashed THEN p1
     ELSE Then(parse_rule(p1, ParseRule(prev.kind).prefix, prec,
                          UnexpectedToken("Expected expression", prev)), LAMBDA p2 :
          Then(infix_loop(p2, prec), LAMBDA p3 :
            IF prec <= Precedence.Assignment /\ is(p3, "Equal")
            THEN Raise(p3, ParseErrorAt("Error", "Invalid assignment target"))
            ELSE IF prec <= Precedence.Sequence /\ p3.prev_token.kind = "Comma"
            THEN parse_expr(Emit(p3, Op("Pop")))
            ELSE p3))

(* Statements and declarations *)

\* the loop of Parser::parse_block
RECURSIVE block_loop(_)
block_loop(p) ==
  IF p.crashed \/ is(p, "RightBrace") \/ is_at_end(p) THEN p
  ELSE block_loop(call_declaration(p))

\* Parser::paired / paired_spanned with the inner parser Inner
paired(p, delim_start, start_msg, end_msg, Inner(_)) ==
  Then(consume(p, delim_start, start_msg), LAMBDA p1 :
    Then(Inner(p1), LAMBDA p2 : consume(p2, get_pair(delim_start), end_msg)))

parse_block(p) ==
  paired(p, "LeftBrace", "Expected block to be opened", "Expected block to be closed",
         block_loop)

\* the parameter loop of Parser::function
RECURSIVE param_loop(_)
param_loop(p) ==
  LET p1 == [p EXCEPT !.compiler.function.arity = @ + 1]
  IN IF p1.compiler.function.arity > MAX_ARGS
     THEN Raise(p1, ParseErrorAt("Error", "Can't have more than 255 parameters"))
     ELSE Then(consume_var(p1, "Expected parameter name"), LAMBDA p2 :
            LET p3 == define_var(p2, p2.prev_token.name)
            IN IF is(p3, "Comma") THEN Then(advance(p3), param_loop) ELSE p3)

params(p) == IF is(p, "RightParen") THEN p ELSE param_loop(p)

\* Parser::function
function(p, name, kind) ==
  LET enclosing == p.compiler
      p1 == [p EXCEPT !.compiler = begin_scope(build(name, kind))]
  IN Then(paired(p1, "LeftParen", "Expected ( after function name",
                 "Expected ) after parameters", params), LAMBDA p2 :
     Then(parse_block(p2), LAMBDA p3 :
       LET func == p3.base + Len(p3.functions)
       IN [p3 EXCEPT !.functions = Append(@, p3.compiler.function),
                     !.compiler = emit(enclosing, Constant(Function(name, func)))]))

\* Parser::var_decl
var_decl(p) ==
  Then(consume(p, "Var", "Parser bug. Unexpected token"), LAMBDA p1 :
  Then(consume_ident(p1, "Expected variable name"), LAMBDA p2 :
    LET ident == p2.prev_token.name
        r == declare_variable(p2.compiler, ident)
        p3 == IF r.err = NoErr \/ get_level(r.err) = "Error" THEN OnCompiler(p2, r)
              ELSE [p2 EXCEPT !.compiler = r.c, !.reported = Append(@, r.err)]
    IN Then(p3, LAMBDA p4 :
       Then(IF is(p4, "Equal") THEN Then(advance(p4), parse_expr) ELSE Emit(p4, Op("Nil")),
            LAMBDA p5 :
       Then(consume(p5, "Semicolon", "Expected ; after variable declaration"), LAMBDA p6 :
         define_var(p6, ident))))))

\* Parser::fun_decl
fun_decl(p) ==
  Then(consume(p, "Fun", "Parser bug. Unexpected token"), LAMBDA p1 :
  Then(consume_var(p1, "Expected function name"), LAMBDA p2 :
    LET ident == p2.prev_token.name
    IN Then(function([p2 EXCEPT !.compiler = mark_init(@)], ident, "Function"), LAMBDA p3 :
         define_var(p3, ident))))

\* Parser::parse_if_stmt
parse_if_stmt(p) ==
  Then(consume(p, "If", "Parser bug. Unexpected token"), LAMBDA p1 :
  Then(paired(p1, "LeftParen", "Expected ( after if.", "Expected ) after condition.",
              parse_expr), LAMBDA p2 :
    LET then_jmp == Len(Code(p2))
    IN Then(call_statement(Emit(Emit(p2, OpN("JumpIfFalse", -1)), Op("Pop"))), LAMBDA p3 :
         LET else_jmp == Len(Code(p3))
         IN Then(PatchJump(Emit(p3, OpN("Jump", -1)), then_jmp), LAMBDA p4 :
            Then(IF is(Emit(p4, Op("Pop")), "Else")
                 THEN Then(advance(Emit(p4, Op("Pop"))), call_statement)
                 ELSE Emit(p4, Op("Pop")), LAMBDA p5 :
              PatchJump(p5, else_jmp))))))

\* Compiler::emit_loop on the current compiler
EmitLoop(p, start) == OnCompiler(p, emit_loop(p.compiler, start))

\* Parser::parse_while
parse_while(p) ==
  LET loop_start == Len(Code(p))
  IN Then(consume(p, "While", "Parser bug. Unexpected token"), LAMBDA p1 :
     Then(paired(p1, "LeftParen", "Expected ( after while.", "Expected ) after condition.",
                 parse_expr), LAMBDA p2 :
       LET exit_jmp == Len(Code(p2))
       IN Then(call_statement(Emit(Emit(p2, OpN("JumpIfFalse", -1)), Op("Pop"))), LAMBDA p3 :
          Then(EmitLoop(p3, loop_start), LAMBDA p4 :
          Then(PatchJump(p4, exit_jmp), LAMBDA p5 : Emit(p5, Op("Pop")))))))

\* Parser::expression
expression(p) ==
  Then(parse_expr(p), LAMBDA p1 :
  Then(consume(p1, "Semicolon", "Expected end of expression"), LAMBDA p2 :
    Emit(p2, Op("Pop"))))

\* the clauses of Parser::parse_for between the parentheses; the loop start
\* and the exit jump (-1 for none) are left in the fields loop_start, exit_jmp
for_clauses(p) ==
  Then(CASE is(p, "Semicolon") -> advance(p)
         [] is(p, "Var") -> var_decl(p)
         [] OTHER -> expression(p), LAMBDA p1 :
    LET loop_start == Len(Code(p1))
    IN Then(IF is(p1, "Semicolon") THEN p1
            ELSE Then(parse_expr(p1), LAMBDA q :
                   Emit(Emit(q, OpN("JumpIfFalse", -1)), Op("Pop"))), LAMBDA p2 :
         LET exit_jmp == IF is(p1, "Semicolon") THEN -1 ELSE Len(Code(p2)) - 2
         IN Then(consume(p2, "Semicolon", "Expected ; after for condition"), LAMBDA p3 :
              IF is(p3, "RightParen")
              THEN [loop_start |-> loop_start, exit_jmp |-> exit_jmp] @@ p3
              ELSE LET body_jmp == Len(Code(p3))
                       inc_start == body_jmp + 1
                   IN Then(parse_expr(Emit(p3, OpN("Jump", -1))), LAMBDA p4 :
                      Then(EmitLoop(Emit(p4, Op("Pop")), loop_start), LAMBDA p5 :
                      Then(PatchJump(p5, body_jmp), LAMBDA p6 :
                        [loop_start |-> inc_start, exit_jmp |-> exit_jmp] @@ p6))))))

\* the parser record without the fields for_clauses adds
Plain(p) == [f \in DOMAIN p \ {"loop_start", "exit_jmp"} |-> p[f]]

\* Parser::parse_for
parse_for(p) ==
  LET p0 == [p EXCEPT !.compiler = begin_scope(@)]
  IN Then(consume(p0, "For", "Parser bug. Unexpected token"), LAMBDA p1 :
       LET r == paired(p1, "LeftParen", "Expected ( after for",
                       "Expected ) to close for group", for_clauses)
       IN IF ~Good(r) THEN Plain(r)
          ELSE Then(call_statement(Plain(r)), LAMBDA p2 :
               Then(EmitLoop(p2, r.loop_start), LAMBDA p3 :
               Then(IF r.exit_jmp >= 0
                    THEN Then(PatchJump(p3, r.exit_jmp), LAMBDA q : Emit(q, Op("Pop")))
                    ELSE p3, LAMBDA p4 :
                 [p4 EXCEPT !.compiler = end_scope(@)]))))

\* Parser::parse_print
parse_print(p) ==
  Then(consume(p, "Print", "Parser bug. Unexpected token"), LAMBDA p1 :
  Then(parse_expr(p1), LAMBDA p2 :
  Then(consume(p2, "Semicolon", "Expected ; after value"), LAMBDA p3 :
    Emit(p3, Op("Print")))))

\* Parser::parse_return
parse_return(p) ==
  Then(consume(p, "Return", "Parser bug. Unexpected token"), LAMBDA p1 :
    IF p1.compiler.fun_type = "Script"
    THEN Raise(p1, ParseErrorAt("Warning", "Detected return from top-level code"))
    ELSE IF is(p1, "Semicolon") THEN Then(advance(p1), emit_return)
    ELSE Then(parse_expr(p1), LAMBDA p2 :
         Then(consume(p2, "Semicolon", "Expected ; after return value"), LAMBDA p3 :
           Emit(p3, Op("Return")))))

\* Parser::end_scope : the pops and closes of the scope are emitted
Parser_end_scope(p) == [p EXCEPT !.compiler = end_scope(@)]

\* Parser::statement
statement(p) ==
  CASE is(p, "LeftBrace") ->
         Then(parse_block([p EXCEPT !.compiler = begin_scope(@)]), Parser_end_scope)
    [] is(p, "If") -> parse_if_stmt(p)
    [] is(p, "While") -> parse_while(p)
    [] is(p, "For") -> parse_for(p)
    [] is(p, "Print") -> parse_print(p)
    [] is(p, "Return") -> parse_return(p)
    [] OTHER -> expression(p)

\* Parser::declaration
declaration(p) ==
  LET res == CASE is(p, "Var") -> var_decl(p)
               [] is(p, "Fun") -> fun_decl(p)
               [] OTHER -> call_statement(p)
      p1 == IF res.err # NoErr
            THEN [res EXCEPT !.diagnostics = Append(@, res.err), !.err = NoErr]
            ELSE res
  IN IF p1.crashed THEN p1
     ELSE IF p1.panic_mode THEN sync(p1) ELSE p1

\* impl Parser : the method called
Parser(method, p, prec) ==
  CASE method = "parse_precedence" -> parse_precedence(p, prec)
    [] method = "statement" -> statement(p)
    [] OTHER -> declaration(p)

\* Parser::parse_program
RECURSIVE parse_program(_)
parse_program(p) ==
  IF p.crashed \/ is_at_end(p) THEN p ELSE parse_program(call_declaration(p))

\* Parser::parse : the functions pushed onto the module end with main
parse(p) ==
  LET p1 == parse_program(p)
  IN IF p1.crashed THEN p1
     ELSE LET p2 == emit_return(p1)
          IN [p2 EXCEPT !.functions = Append(@, p2.compiler.function)]

\* compiler::compile
compile(toks, base) ==
  LET p == ParserNew(toks, base)
  IN IF p.crashed THEN p ELSE parse(p)

-----------------------------------------------------------------------------
(* Sources.  A source text is written as its sequence of lexemes; Lex gives *)
(* the tokens the scanner yields for it, EOF last.                          *)

Keywords ==
  [print |-> "Print", var |-> "Var", fun |-> "Fun", return |-> "Return", if |-> "If",
   else |-> "Else", while |-> "While", for |-> "For", and |-> "And", or |-> "Or",
   true |-> "True", false |-> "False", nil |-> "Nil", class |-> "Class"]
Punctuation ==
  [w \in {"(", ")", "{", "}", ",", ";", "-", "+", "*", "/", "!", "=", "==", "!=",
          "<", "<=", ">", ">="} |->
     CASE w = "(" -> "LeftParen" [] w = ")" -> "RightParen"
       [] w = "{" -> "LeftBrace" [] w = "}" -> "RightBrace"
       [] w = "," -> "Comma" [] w = ";" -> "Semicolon"
       [] w = "-" -> "Minus" [] w = "+" -> "Plus" [] w = "*" -> "Star" [] w = "/" -> "Slash"
       [] w = "!" -> "Bang" [] w = "=" -> "Equal" [] w = "==" -> "EqualEqual"
       [] w = "!=" -> "BangEqual" [] w = "<" -> "Less" [] w = "<=" -> "LessEqual"
       [] w = ">" -> "Greater" [] w = ">=" -> "GreaterEqual"]
Digits == [w \in {"0", "1", "2", "3", "4", "5", "6"} |->
             CASE w = "0" -> 0 [] w = "1" -> 1 [] w = "2" -> 2 [] w = "3" -> 3
               [] w = "4" -> 4 [] w = "5" -> 5 [] w = "6" -> 6]
\* string literals, written with their quotes
Quoted == [w \in {"'x'", "'y'", "''", "'s'", "'xy'"} |->
             CASE w = "'x'" -> <<"x">> [] w = "'y'" -> <<"y">>
               [] w = "'s'" -> <<"s">> [] w = "''" -> << >>
               [] w = "'xy'" -> <<"x", "y">>]

Word(w) ==
  CASE w \in DOMAIN Keywords -> Tok(Keywords[w])
    [] w \in DOMAIN Punctuation -> Tok(Punctuation[w])
    [] w \in DOMAIN Digits -> TNumber(Digits[w])
    [] w \in DOMAIN Quoted -> TString(Quoted[w])
    [] w = "#" -> Tok("Error")
    [] OTHER -> TIdent(w)

Lex(words) == [i \in 1..Len(words) + 1 |-> IF i <= Len(words) THEN Word(words[i]) ELSE EOF]

SrcArith == <<"print", "1", "+", "2", "-", "3", "*", "-", "4", "/", "(", "5", "-", "6", ")", ";">>
SrcTypes ==
  <<"print", "!", "(", "5", "-", "4", ">", "3", "*", "2", "==", "!", "nil", ")", ";",
    "print", "1", "<=", "2", ";", "print", "'x'", "+", "1", ";", "print", "1", "/", "0", ";">>
SrcGlobals ==
  <<"var", "a", "=", "'x'", ";", "a", "=", "a", "+", "'y'", ";", "print", "a", ";",
    "b", "=", "1", ";">>
SrcLocals ==
  <<"{", "var", "a", "=", "1", ";", "var", "b", "=", "2", ";", "a", "=", "b", ";",
    "print", "a", "<", "b", ";", "}", "print", "c", ";">>
SrcJumps ==
  <<"var", "i", "=", "0", ";", "while", "(", "i", "<", "2", ")", "i", "=", "i", "+", "1", ";",
    "if", "(", "false", ")", "print", "1", ";", "else", "print", "i", ";">>
SrcNative ==
  <<"print", "clock", "(", ")", ";", "clock", "(", "1", ")", ";">>
SrcCallString == <<"'s'", "(", ")", ";">>
SrcNoReturn ==
  <<"fun", "f", "(", ")", "{", "print", "1", ";", "}", "f", "(", ")", ";", "print", "2", ";">>
SrcReturnAtScript == <<"print", "1", ";", "return", "2", ";">>
SrcRedeclare ==
  <<"{", "var", "a", "=", "1", ";", "var", "a", "=", "2", ";", "print", "a", ";", "}">>
SrcExpected == <<"var", "a", "=", "1", ";", "print", ";">>
SrcScanError == <<"print", "#", "1", ";", "print", "2", ";">>
SrcCutShort == <<"print", "1", "+">>
SrcComma == <<"print", "1", ",", "2", ";">>
SrcCommaMinus == <<"print", "1", ",", "-", "2", ";">>
SrcCommaGroup == <<"print", "1", ",", "(", "2", ")", ";">>
SrcConcat ==
  <<"fun", "f", "(", ")", "{", "}",
    "print", "'x'", "+", "nil", ";", "print", "'x'", "+", "true", ";",
    "print", "'x'", "+", "'y'", "==", "'xy'", ";", "print", "'x'", "+", "clock", ";",
    "print", "'x'", "+", "f", ";", "print", "'x'", "+", "1", "/", "0", ";",
    "print", "''", "+", "1", "/", "2", ";">>
\* a and (g = k) / a or (g = k) for each kind of a, printing the value and then g
LogicCases ==
  <<<<"nil", "and", "1">>, <<"false", "and", "2">>, <<"0", "and", "3">>, <<"''", "and", "4">>,
    <<"true", "or", "5">>, <<"0", "or", "6">>, <<"''", "or", "5">>, <<"nil", "or", "6">>,
    <<"false", "or", "1">>>>
LogicStatement(c) ==
  <<"print", c[1], c[2], "(", "g", "=", c[3], ")", ";", "print", "g", ";">>
RECURSIVE LogicStatements(_)
LogicStatements(i) ==
  IF i > Len(LogicCases) THEN << >>
  ELSE LogicStatement(LogicCases[i]) \o LogicStatements(i + 1)
SrcLogic == <<"var", "g", "=", "0", ";">> \o LogicStatements(1)
\* for loops: every clause; no initializer; no incrementer and a loop local
SrcFor ==
  <<"var", "g", "=", "0", ";",
    "for", "(", "g", "=", "1", ";", "g", "<", "3", ";", "g", "=", "g", "+", "1", ")",
      "print", "g", ";",
    "print", "g", ";",
    "for", "(", ";", "g", "<", "5", ";", "g", "=", "g", "+", "1", ")", "print", "g", ";",
    "print", "g", ";",
    "for", "(", "var", "i", "=", "0", ";", "i", "<", "2", ";", ")",
      "{", "print", "i", ";", "i", "=", "i", "+", "1", ";", "}",
    "print", "g", ";">>
\* no condition: the loop ends when the body fails
SrcForNoCond ==
  <<"for", "(", "var", "i", "=", "0", ";", ";", "i", "=", "'x'", "+", "i", ")",
      "print", "-", "i", ";">>
SrcForBare ==
  <<"var", "g", "=", "0", ";",
    "for", "(", ";", ";", ")", "{", "print", "-", "g", ";", "g", "=", "'x'", ";", "}">>
SrcForEmpty == <<"for", "(", ";", ";", ")", "{", "}">>
SrcSelfInit == <<"{", "var", "a", "=", "a", ";", "}">>
SrcSelfInitShadow ==
  <<"print", "1", ";",
    "{", "var", "a", "=", "'x'", ";", "{", "var", "a", "=", "a", ";", "}", "}">>
SrcTrace ==
  <<"fun", "a", "(", ")", "{", "b", "(", ")", ";", "}",
    "fun", "b", "(", ")", "{", "c", "(", ")", ";", "}",
    "fun", "c", "(", ")", "{", "c", "(", "'x'", ",", "'y'", ")", ";", "}",
    "a", "(", ")", ";">>
\* blocks with a loop that runs twice and takes both branches of an if,
\* and with a loop that runs zero times
SrcBlocks ==
  <<"{", "var", "a", "=", "0", ";",
         "while", "(", "a", "<", "2", ")", "{",
            "if", "(", "a", "<", "1", ")", "{", "var", "b", "=", "a", ";", "print", "b", ";", "}",
            "else", "print", "a", ";",
            "a", "=", "a", "+", "1", ";", "}", "}",
    "{", "var", "c", "=", "5", ";", "while", "(", "c", "<", "2", ")", "{", "c", "=", "1", ";", "}",
         "print", "c", ";", "}",
    "print", "1", ";">>
SrcNumberPlusString == <<"print", "1", "+", "'x'", ";">>
SrcNilPlusNumber == <<"print", "nil", "+", "1", ";">>

Sources ==
  {SrcArith, SrcTypes, SrcGlobals, SrcLocals, SrcJumps, SrcNative, SrcCallString,
   SrcNoReturn, SrcReturnAtScript, SrcRedeclare, SrcExpected, SrcScanError, SrcCutShort,
   SrcComma, SrcCommaMinus, SrcCommaGroup, SrcConcat, SrcNumberPlusString, SrcNilPlusNumber,
   SrcLogic, SrcFor, SrcForNoCond, SrcForBare, SrcForEmpty, SrcSelfInit, SrcSelfInitShadow,
   SrcTrace, SrcBlocks}
  \cup {<<"print", "!", w, ";">> : w \in {"nil", "false", "true", "0", "1", "''", "'x'", "clock"}}

-----------------------------------------------------------------------------
(* VM::new and VM::run *)

\* vm/native.rs attach: the natives registered at construction
NativeClock == [name |-> "clock", arity |-> 0]

NotCompiled == [crashed |-> FALSE, diagnostics |-> << >>, reported |-> << >>,
                functions |-> << >>, compiler |-> build("<script>", "Script")]
\* what the parser leaves behind: the diagnostics it returns, the warnings it
\* only reported, the functions it pushed onto the module, and its compiler
Outcome(p) == [crashed |-> p.crashed, diagnostics |-> p.diagnostics,
               reported |-> p.reported, functions |-> p.functions,
               compiler |-> p.compiler]
Text(words) == [name |-> "text", words |-> words]
Assembled(name) == [name |-> name, words |-> << >>]

(* Scanner  (compiler/scanner.rs), character by character.  The source is a
   sequence of one-character strings; byte offsets are counted from 0. *)

MaxSrc == 4
NUL == "NUL"
NL == "\n"
DQ == "\""
Chars == {"/", "*", NL, DQ, "a"}

\* Scanner::advance : the cursor moves on; the caller reads the character
\* returned from s.current.ch
Scanner_advance(s) ==
  IF s.chars < Len(s.src)
  THEN [s EXCEPT !.current = [idx |-> s.chars, ch |-> s.src[s.chars + 1]],
                 !.chars = s.chars + 1]
  ELSE [s EXCEPT !.current = [idx |-> Len(s.src), ch |-> NUL]]

\* Scanner::new
ScannerNew(src) ==
  Scanner_advance([src |-> src, chars |-> 0, current |-> [idx |-> 0, ch |-> NUL],
                   lexeme_start |-> 0, line |-> 1, emitted_eof |-> FALSE])

\* Scanner::is_at_end
Scanner_is_at_end(s) == s.current.ch = NUL

\* Scanner::lex_span
lex_span(s) == <<s.lexeme_start, s.current.idx, s.line>>

\* Scanner::lex : the slice src[span.0 + lo .. span.1 + hi]
lex(s, lo, hi) == SubSeq(s.src, s.lexeme_start + lo + 1, s.current.idx + hi)

\* Scanner::consume_until
RECURSIVE consume_until(_, _)
consume_until(s, ch) ==
  IF s.current.ch # ch /\ ~Scanner_is_at_end(s)
  THEN consume_until(Scanner_advance(s), ch)
  ELSE s

\* what a scanning method hands back: the token type and the scanner after it
Scanned(kind, s) == [kind |-> kind, s |-> s]

\* Scanner::string
string(s) ==
  LET body == consume_until(s, DQ)
      closed == Scanner_advance(body)
  IN IF Scanner_is_at_end(body)
     THEN Scanned([kind |-> "Error", err |-> "UnterminatedString"], body)
     ELSE Scanned([kind |-> "String", s |-> lex(closed, 1, -1)], closed)

\* Scanner::comment
comment(s) ==
  LET body == consume_until(s, NL)
  IN Scanned([kind |-> "Comment", s |-> lex(body, 2, 0)], body)

\* the while loop of Scanner::block_comment
RECURSIVE block_comment_loop(_)
block_comment_loop(s) ==
  IF Scanner_is_at_end(s) THEN s
  ELSE LET c == s.current.ch
           s1 == Scanner_advance(s)
       IN IF c = "*"
          THEN IF s1.current.ch = "/" THEN Scanner_advance(s1)
               ELSE block_comment_loop(s1)
          ELSE IF c = NL THEN block_comment_loop([s1 EXCEPT !.line = @ + 1])
               ELSE block_comment_loop(s1)

\* Scanner::block_comment
block_comment(s) ==
  LET first == Scanner_advance(s)
      body == block_comment_loop(first)
  IN IF Scanner_is_at_end(body)
     THEN Scanned([kind |-> "Error", err |-> "UnterminatedComment"], body)
     ELSE Scanned([kind |-> "BlockComment", s |-> lex(body, 2, -2), line |-> first.line],
                  body)

\* Scanner::comment_or_slash
comment_or_slash(s) ==
  CASE s.current.ch = "/" -> comment(s)
    [] s.current.ch = "*" -> block_comment(s)
    [] OTHER -> Scanned(Tok("Slash"), s)

\* char::is_ascii_whitespace, over Chars
is_ascii_whitespace(c) == c = NL

\* Scanner::whitespace
RECURSIVE whitespace(_)
whitespace(s) ==
  IF is_ascii_whitespace(s.current.ch)
  THEN whitespace(Scanner_advance(
         IF s.current.ch = NL THEN [s EXCEPT !.line = @ + 1] ELSE s))
  ELSE Scanned([kind |-> "Whitespace"], s)

\* is_valid_identifier_start and is_valid_identifier_tail, over Chars
is_valid_identifier_tail(c) == c = "a"

\* Scanner::identifier_or_keyword
RECURSIVE identifier_or_keyword(_)
identifier_or_keyword(s) ==
  IF is_valid_identifier_tail(s.current.ch)
  THEN identifier_or_keyword(Scanner_advance(s))
  ELSE Scanned([kind |-> "Identifier", name |-> lex(s, 0, 0)], s)

\* Scanner::scan_token
scan_token(s) ==
  LET c == s.current.ch
      s1 == Scanner_advance(s)
  IN CASE c = NUL -> Scanned(EOF, s1)
       [] c = "*" -> Scanned(Tok("Star"), s1)
       [] c = DQ -> string(s1)
       [] c = "/" -> comment_or_slash(s1)
       [] c = NL -> whitespace([s1 EXCEPT !.line = @ + 1])
       [] OTHER -> identifier_or_keyword(s1)

\* the loop of Scanner::next that skips over whitespace
RECURSIVE next_loop(_)
next_loop(s) ==
  LET r == scan_token([s EXCEPT !.lexeme_start = s.current.idx])
  IN IF r.kind.kind = "Whitespace" THEN next_loop(r.s) ELSE r

\* Token { kind, span }
Token(kind, span) == [kind |-> kind, span |-> span]

\* Iterator::next for Scanner : Some(token) and the scanner after it
Scanner_next(s) ==
  LET r == next_loop(s)
      after == [r.s EXCEPT !.emitted_eof = (r.kind = EOF)]
      span == IF r.kind.kind = "BlockComment"
              THEN <<lex_span(after)[1], lex_span(after)[2], r.kind.line>>
              ELSE lex_span(after)
  IN [token |-> Token(r.kind, span), s |-> after]


\* MemManager::new; allocated counts the Rc<LoxObject> made so far (history)
MemManagerNew == [strings |-> {}, objects |-> << >>, allocated |-> 0]

Init ==
  /\ debug_assertions \in BOOLEAN
  /\ status = "idle"
  /\ result = [kind |-> "none"]
  /\ runs = 0
  /\ source = Text(<< >>)
  /\ compiled = NotCompiled
  /\ frames = << >>
  /\ stack = <<Function("<script>", 0)>>
  /\ globals = [n \in {"clock"} |-> Native("clock", 0)]
  /\ module = [functions |-> GcEmpty, closures |-> GcEmpty, upvals |-> GcEmpty,
               natives |-> <<NativeClock>>]
  /\ functionHeap = << >>
  /\ closureHeap = << >>
  /\ upvalHeap = << >>
  /\ objects = MemManagerNew
  /\ output = << >>
  /\ warnings = << >>
  /\ slotId = <<0>>
  /\ cellVar = << >>
  /\ nextId = 1
  /\ scanner = ScannerNew(<< >>)
  /\ tokens = << >>

\* Module::push of each compiled function, in order: [gc, heap]
RECURSIVE PushFunctions(_, _, _)
PushFunctions(funs, gc, heap) ==
  IF funs = << >> THEN [gc |-> gc, heap |-> heap]
  ELSE PushFunctions(Tail(funs),
                     GcInsert(GcStress(gc, "function", FunctionCount), Len(heap) + 1).gc,
                     Append(heap, Head(funs)))

\* VM::run refusing a program only for more than one diagnostic
compile_failed_twice(c) == Len(c.diagnostics) > 1

\* VM::run : compile_errors.len() > 0
compile_failed(c) == Len(c.diagnostics) > 0

\* VM::run, given what compile(src, module) did
run(src, c) ==
  /\ status = "idle"
  /\ runs < MaxRuns
  /\ source' = src
  /\ compiled' = c
  /\ runs' = runs + 1
  /\ IF c.crashed
     THEN /\ status' = "dead"
          /\ result' = [kind |-> "panic", err |-> "Cannot advance past EOF."]
          /\ UNCHANGED <<module, functionHeap, closureHeap, frames>>
     ELSE LET pushed == PushFunctions(c.functions, module.functions, functionHeap)
              main == GcLast(pushed.gc)
          IN /\ module' = [module EXCEPT !.functions = pushed.gc]
             /\ functionHeap' = pushed.heap
             /\ IF compile_failed(c)
                THEN /\ status' = "idle"
                     /\ result' = [kind |-> "CompileError"]
                     /\ UNCHANGED <<closureHeap, frames>>
                ELSE /\ closureHeap' = Append(closureHeap, [fun |-> main.h, upvalues |-> << >>])
                     /\ frames' = Append(frames, [function |-> Len(closureHeap) + 1,
                                                  ip |-> 0, start |-> 0])
                     /\ status' = "running"
                     /\ result' = [kind |-> "none"]
  /\ UNCHANGED <<debug_assertions, scanner, tokens, stack, globals, upvalHeap, objects, output, warnings,
                 slotId, cellVar, nextId>>

\* VM::run(src) for a source text
RunSource ==
  \E words \in Sources :
    run(Text(words), Outcome(compile(Lex(words), Len(module.functions.data))))

\* VM::run on a source whose compiled form is in the catalogue
RunProgram ==
  \E name \in ProgramNames :
    run(Assembled(name),
        [NotCompiled EXCEPT !.functions = Program(name, Len(module.functions.data))])

Step ==
  \/ ConstantIns \/ TrueIns \/ FalseIns \/ NilIns
  \/ Negate \/ Not \/ Add \/ Subtract \/ Multiply \/ Divide
  \/ Equal \/ Greater \/ Less
  \/ PrintIns \/ Pop \/ PopN
  \/ DefGlobal \/ GetGlobal \/ SetGlobal \/ GetLocal \/ SetLocal
  \/ GetUpval \/ SetUpval \/ CloseUpval
  \/ Jump \/ JumpIfFalse
  \/ Call \/ ClosureIns \/ Return \/ EndOfChunk

Next == RunSource \/ RunProgram \/ Step

Spec == Init /\ [][Next]_vars

-----------------------------------------------------------------------------
(* compile as a function of the source text alone *)

MaxWords == 4
MaxExpr == 3
Alphabet == {"print", "1", "2", ",", "-", "(", ")", ";"}
ExprAlphabet == {"1", "2", "-", "(", ")"}
Operands == {<<"1">>, <<"2">>}

\* the sequences over S of length at most n
SeqsUpTo(S, n) == UNION {[1..k -> S] : k \in 0..n}

\* texts that make the compiler emit and patch jumps
JumpTexts ==
  {<<"if", "(", "1", ")", "2", ";">>,
   <<"if", "(", "1", ")", "2", ";", "else", "1", ";">>,
   <<"while", "(", "1", ")", "2", ";">>,
   <<"print", "1", "and", "2", "or", "1", ";">>,
   <<"for", "(", ";", "1", ";", ")", "2", ";">>,
   <<"fun", "f", "(", ")", "{", "while", "(", "1", ")", "2", ";", "}">>,
   <<"fun", "f", "(", ")", "{", "if", "(", "1", ")", "2", ";", "}">>}

\* the beginnings of a function declaration: complete ones, and ones cut
\* short before (, before ), before { and by a parameter that is no name
FunHeads ==
  {<<"fun", "f", "(", ")", "{", "}">>,
   <<"fun", "f", "(", "a", ")", "{", "print", "a", ";", "}">>,
   <<"fun", "f">>,
   <<"fun", "f", "(", "a">>,
   <<"fun", "f", "(", ")">>,
   <<"fun", "f", "(", "1", ")", "{", "}">>}

\* a function declaration followed by a statement of the script, and one
\* whose body is never closed
FunTexts ==
  {head \o <<"print", "2", ";">> : head \in FunHeads}
  \cup {<<"fun", "f", "(", ")", "{", "print", "1", ";">>}

\* every short text, every text  print L , R ;  with a short R, the texts
\* with jumps and the texts with function declarations
Texts ==
  SeqsUpTo(Alphabet, MaxWords)
  \cup {<<"print">> \o L \o <<",">> \o R \o <<";">> :
          L \in Operands, R \in SeqsUpTo(ExprAlphabet, MaxExpr)}
  \cup JumpTexts
  \cup FunTexts

InitCompile ==
  /\ Init
  /\ ~debug_assertions

CompileText ==
  /\ runs = 0
  /\ \E words \in Texts :
       /\ source' = Text(words)
       /\ compiled' = Outcome(compile(Lex(words), 0))
  /\ UNCHANGED <<debug_assertions, scanner, tokens, status, result, frames, stack, globals, module, objects,
                 functionHeap, closureHeap, upvalHeap, output, warnings,
                 slotId, cellVar, nextId>>
  /\ runs' = 1

NextCompile == CompileText

SpecCompile == InitCompile /\ [][NextCompile]_vars

-----------------------------------------------------------------------------
(* The locals of one function body, declared one  var name ;  at a time *)

\* scopes are opened only among the first locals, and a name is declared
\* twice only there
ScopeBound == 3
MaxDepth == 2

\* the parser in the body of a function whose compiler is c, about to read
\* the tokens toks
Resume(c, toks) ==
  [ParserNew(toks, 0) EXCEPT !.compiler = c]

InitLocals ==
  /\ Init
  /\ ~debug_assertions

\* fun f() {
EnterFunction ==
  /\ runs = 0
  /\ runs' = 1
  /\ source' = Text(<<"fun", "f", "(", ")", "{">>)
  /\ compiled' = [NotCompiled EXCEPT !.compiler = begin_scope(build("f", "Function"))]
  /\ UNCHANGED <<debug_assertions, scanner, tokens, status, result, frames, stack, globals, module, objects,
                 functionHeap, closureHeap, upvalHeap, output, warnings,
                 slotId, cellVar, nextId>>

\* the names the next declaration may use: a new one, or the last one again
NextNames(c) ==
  {ToString(Len(c.locals))}
  \cup (IF 1 < Len(c.locals) /\ Len(c.locals) <= ScopeBound
        THEN {c.locals[Len(c.locals)].name} ELSE {})

\* Parser::declaration on  var name ;
DeclareLocal ==
  /\ runs = 1
  /\ compiled.diagnostics = << >>
  /\ \E name \in NextNames(compiled.compiler) :
       /\ source' = Text(<<"var", name, ";">>)
       /\ compiled' = Outcome(call_declaration(
            Resume(compiled.compiler,
                   <<Tok("Var"), TIdent(name), Tok("Semicolon"), EOF>>)))
  /\ UNCHANGED <<debug_assertions, scanner, tokens, status, result, runs, frames, stack, globals, module, objects,
                 functionHeap, closureHeap, upvalHeap, output, warnings,
                 slotId, cellVar, nextId>>

\* the begin_scope of Parser::statement on {
BeginScope ==
  /\ runs = 1
  /\ compiled.diagnostics = << >>
  /\ compiled.compiler.scope_depth < MaxDepth
  /\ Len(compiled.compiler.locals) <= ScopeBound
  /\ source' = Text(<<"{">>)
  /\ compiled' = [compiled EXCEPT !.compiler = begin_scope(@)]
  /\ UNCHANGED <<debug_assertions, scanner, tokens, status, result, runs, frames, stack, globals, module, objects,
                 functionHeap, closureHeap, upvalHeap, output, warnings,
                 slotId, cellVar, nextId>>

NextLocals == EnterFunction \/ DeclareLocal \/ BeginScope

SpecLocals == InitLocals /\ [][NextLocals]_vars

-----------------------------------------------------------------------------
(* The scopes of one function compiler on their own: scopes are opened,
   locals are declared in them and captured by an inner function, and the
   scopes are ended one by one *)

ScopeLocals == 4
ScopeDepth == 3

InitScope ==
  /\ Init
  /\ ~debug_assertions

\* fun f() {
ScopeEnter ==
  /\ runs = 0
  /\ runs' = 1
  /\ source' = Text(<<"fun", "f", "(", ")", "{">>)
  /\ compiled' = [NotCompiled EXCEPT !.compiler = begin_scope(build("f", "Function"))]
  /\ UNCHANGED <<debug_assertions, scanner, tokens, status, result, frames, stack, globals, module, objects,
                 functionHeap, closureHeap, upvalHeap, output, warnings,
                 slotId, cellVar, nextId>>

\* var name; with the local defined
ScopeDeclare ==
  /\ runs = 1
  /\ compiled.compiler.function.code = << >>
  /\ Len(compiled.compiler.locals) <= ScopeLocals
  /\ compiled.compiler.scope_depth > 0
  /\ source' = Text(<<"var", ToString(Len(compiled.compiler.locals)), ";">>)
  /\ compiled' = [compiled EXCEPT !.compiler =
         mark_init(add_local(@, ToString(Len(compiled.compiler.locals))).c)]
  /\ UNCHANGED <<debug_assertions, scanner, tokens, status, result, runs, frames, stack, globals, module, objects,
                 functionHeap, closureHeap, upvalHeap, output, warnings,
                 slotId, cellVar, nextId>>

\* an inner function names a local of this compiler
ScopeCapture ==
  /\ runs = 1
  /\ compiled.compiler.function.code = << >>
  /\ \E idx \in 1..(Len(compiled.compiler.locals) - 1) :
       /\ ~compiled.compiler.locals[idx + 1].captured
       /\ source' = Text(<<"fun", "g", "(", ")", "{", ToString(idx), ";", "}">>)
       /\ compiled' = [compiled EXCEPT !.compiler = capture_local(@, idx)]
  /\ UNCHANGED <<debug_assertions, scanner, tokens, status, result, runs, frames, stack, globals, module, objects,
                 functionHeap, closureHeap, upvalHeap, output, warnings,
                 slotId, cellVar, nextId>>

\* {
ScopeBegin ==
  /\ runs = 1
  /\ compiled.compiler.function.code = << >>
  /\ compiled.compiler.scope_depth < ScopeDepth
  /\ source' = Text(<<"{">>)
  /\ compiled' = [compiled EXCEPT !.compiler = begin_scope(@)]
  /\ UNCHANGED <<debug_assertions, scanner, tokens, status, result, runs, frames, stack, globals, module, objects,
                 functionHeap, closureHeap, upvalHeap, output, warnings,
                 slotId, cellVar, nextId>>

\* }
ScopeEnd ==
  /\ runs = 1
  /\ compiled.compiler.scope_depth > 0
  /\ source' = Text(<<"}">>)
  /\ compiled' = [compiled EXCEPT !.compiler = end_scope(@)]
  /\ UNCHANGED <<debug_assertions, scanner, tokens, status, result, runs, frames, stack, globals, module, objects,
                 functionHeap, closureHeap, upvalHeap, output, warnings,
                 slotId, cellVar, nextId>>

NextScope == ScopeEnter \/ ScopeDeclare \/ ScopeCapture \/ ScopeBegin \/ ScopeEnd

SpecScope == InitScope /\ [][NextScope]_vars

-----------------------------------------------------------------------------
(* The scanner on its own: Scanner::new on a source text, then the iterator
   driven until it is exhausted *)

RECURSIVE Strings(_)
Strings(n) ==
  IF n = 0 THEN {<< >>}
  ELSE Strings(n - 1) \cup {Append(t, c) : t \in Strings(n - 1), c \in Chars}

InitScan ==
  /\ Init
  /\ ~debug_assertions

NewScanner ==
  /\ runs = 0
  /\ runs' = 1
  /\ \E src \in Strings(MaxSrc) : scanner' = ScannerNew(src)
  /\ UNCHANGED <<debug_assertions, tokens, status, result, source, compiled, frames, stack,
                 globals, module, objects, functionHeap, closureHeap, upvalHeap, output,
                 warnings, slotId, cellVar, nextId>>

NextToken ==
  /\ runs = 1
  /\ ~scanner.emitted_eof
  /\ scanner' = Scanner_next(scanner).s
  /\ tokens' = Append(tokens, Scanner_next(scanner).token)
  /\ UNCHANGED <<debug_assertions, status, result, runs, source, compiled, frames, stack,
                 globals, module, objects, functionHeap, closureHeap, upvalHeap, output,
                 warnings, slotId, cellVar, nextId>>

NextScan == NewScanner \/ NextToken

SpecScan == InitScan /\ [][NextScan]_vars

-----------------------------------------------------------------------------
(* The string pool on its own: add_string and take_string in any order; the
   handles they return are kept on the stack *)

MaxInterns == 4
Contents == {<< >>, <<"x">>, <<"y">>}

InitIntern ==
  /\ Init
  /\ ~debug_assertions

Handed(pool, str, obj) ==
  /\ Len(stack) <= MaxInterns
  /\ objects' = pool
  /\ stack' = Append(stack, [t |-> "str", s |-> str, rc |-> obj])
  /\ UNCHANGED <<debug_assertions, scanner, tokens, status, result, runs, source, compiled, frames, globals,
                 module, functionHeap, closureHeap, upvalHeap, output, warnings,
                 slotId, cellVar, nextId>>

AddString ==
  \E str \in Contents :
    LET r == add_string(objects, str) IN Handed(r.pool, str, r.rc)

TakeString ==
  \E str \in Contents :
    LET r == take_string(objects, str) IN Handed(r.pool, str, r.rc)

NextIntern == AddString \/ TakeString

SpecIntern == InitIntern /\ [][NextIntern]_vars

-----------------------------------------------------------------------------
(* Properties *)

\* a step that is one call of VM::run
RunStep == runs' = runs + 1
\* the instruction about to be dispatched is op
About(op) == CanFetch /\ ins.op = op

\* the upvalue cells held by closures that are still alive
CapturedCells ==
  UNION {{closureHeap[c].upvalues[i] : i \in 1..Len(closureHeap[c].upvalues)} :
           c \in AliveClosures(closureHeap, frames, module.closures)}

\* C1: closures that captured the same local x of a function that has
\* returned read and write one logical x: the closed cells they hold for x
\* always carry the same value, so a write through one is read through all.
C1_SharedVariable ==
  \A u1, u2 \in CapturedCells :
    (/\ cellVar[u1] # -1
     /\ cellVar[u1] = cellVar[u2]
     /\ ~upvalHeap[u1].open
     /\ ~upvalHeap[u2].open)
    => upvalHeap[u1].value = upvalHeap[u2].value

\* the callee of the Call about to be dispatched is a closure of arity argc
CallTargetsClosure ==
  /\ About("Call")
  /\ peek(stack, ins.n).some
  /\ peek(stack, ins.n).h.t = "closure"
  /\ GcGet(module.closures, peek(stack, ins.n).h.idx).some
  /\ functionHeap[closureHeap[GcGet(module.closures, peek(stack, ins.n).h.idx).h].fun].arity
       = ins.n

\* a frame with base = stack.len() - argc - 1 and ip = 0 is pushed, and the
\* caller is left at the instruction after its Call
CallPushesFrame ==
  /\ frames' = Append(advanced,
                      [function |-> GcGet(module.closures, peek(stack, ins.n).h.idx).h,
                       ip |-> 0,
                       start |-> Len(stack) - ins.n - 1])
  /\ stack' = stack
  /\ status' = "running"

\* a Return of a frame other than the script's that does not abort
ReturnsToCaller == About("Return") /\ Len(frames) > 1 /\ status' = "running"

\* the frame is popped, everything from its base up is replaced by the
\* result, and the caller's frame is as the Call left it
ReturnPopsFrame ==
  /\ frames' = SubSeq(frames, 1, Len(frames) - 1)
  /\ stack' = Append(SubSeq(stack, 1, top.start), stack[Len(stack)])

\* C2 (as stated): whenever Call(argc) targets a closure of arity argc a frame
\* is pushed, and its Return hands the single result back to the caller.
C2_CallReturn_AsStated ==
  [][/\ CallTargetsClosure => CallPushesFrame
     /\ ReturnsToCaller => ReturnPopsFrame]_vars

\* C2 (amended): the same, for a Call made while fewer than FRAMES_MAX frames
\* are on the frame stack; the frame is pushed with base stack.len()-argc-1
\* and ip 0, and its Return leaves base+1 values, the result on top, with the
\* caller at the instruction after its Call.
C2_CallReturn ==
  [][/\ (CallTargetsClosure /\ Len(frames) < FRAMES_MAX) => CallPushesFrame
     /\ ReturnsToCaller => ReturnPopsFrame]_vars

\* C2 witness: add(1, 2) was called and its Return handed 3 to the caller
C2_Called ==
  /\ source = Assembled("Call")
  /\ runs = 1
  /\ Len(frames) = 1
  /\ Len(stack) = 2
  /\ stack[2] = Number(3)

\* C3: when the frame of a user function has run to the end of its code
\* without a return, nil is returned to the caller and execution goes on.
C3_EndOfBodyReturnsNil ==
  [][(Running /\ ~CanFetch /\ Len(frames) > 1)
       => /\ status' = "running"
          /\ frames' = SubSeq(frames, 1, Len(frames) - 1)
          /\ stack' = Append(SubSeq(stack, 1, top.start), Nil)]_vars

\* C4: Not pops v and pushes Boolean(!truth(v)): true for nil and false,
\* false for every other value.
C4_NotIsNegatedTruth ==
  [][(About("Not") /\ Len(stack) >= 1)
       => stack' = Append(popped(1), Boolean(~truth(stack[Len(stack)])))]_vars

\* every diagnostic compile returned is of Warning level
OnlyWarnings(c) ==
  \A i \in 1..Len(c.diagnostics) : get_level(c.diagnostics[i]) = "Warning"
\* compile returned a diagnostic of Error level
HasError(c) ==
  \E i \in 1..Len(c.diagnostics) : get_level(c.diagnostics[i]) = "Error"

\* C5: a program whose only compile diagnostics are warnings is still run
\* by VM::run.
C5_WarningsDoNotPreventRun ==
  [][(RunStep /\ ~compiled'.crashed /\ OnlyWarnings(compiled'))
       => status' = "running"]_vars

\* C6: if compile returns an Error-level diagnostic, VM::run returns a
\* compile error, pushes no frame, and leaves stack and globals as they were.
C6_ErrorsAbortRun ==
  [][(RunStep /\ ~compiled'.crashed /\ HasError(compiled'))
       => /\ result' = [kind |-> "CompileError"]
          /\ status' = "idle"
          /\ frames' = frames
          /\ stack' = stack
          /\ globals' = globals]_vars

\* C6 witness: a second run, on a VM whose first run left values behind,
\* was refused for an Error-level diagnostic
C6_Refused ==
  /\ runs = 2
  /\ result = [kind |-> "CompileError"]
  /\ HasError(compiled)
  /\ Len(stack) > 1
  /\ DOMAIN globals # {"clock"}

\* C7: compile returns for every source: the parser never asks the scanner
\* for a token after EOF.
C7_CompileReturns == ~compiled.crashed

\* the code of  print X ;  without its Print and the closing Nil, Return
ExprCode(X) ==
  LET code == compile(Lex(<<"print">> \o X \o <<";">>), 0).compiler.function.code
  IN SubSeq(code, 1, Len(code) - 3)
\* X is an expression without a comma: print X ; compiles without diagnostic
IsOperand(X) ==
  /\ \A i \in 1..Len(X) : X[i] # ","
  /\ LET p == compile(Lex(<<"print">> \o X \o <<";">>), 0)
     IN ~p.crashed /\ p.diagnostics = << >>

\* C8: the code of  print L , R ;  is the code of L, a Pop, the code of R
\* and the Print, for every operand R, one beginning with - or ( included.
C8_SequencePopsLeft ==
  LET w == source.words
      L == SubSeq(w, 2, 2)
      R == SubSeq(w, 4, Len(w) - 1)
  IN (/\ runs = 1
      /\ Len(w) >= 5
      /\ w[1] = "print" /\ w[3] = "," /\ w[Len(w)] = ";"
      /\ IsOperand(L) /\ IsOperand(R))
     => /\ ~compiled.crashed
        /\ compiled.diagnostics = << >>
        /\ compiled.compiler.function.code
             = ExprCode(L) \o <<Op("Pop")>> \o ExprCode(R)
               \o <<Op("Print"), Op("Nil"), Op("Return")>>

\* C9: the frame stack never holds more than FRAMES_MAX frames, and a call
\* fails with StackOverflow only when FRAMES_MAX nested calls are active
\* besides the script.
C9_FrameLimit ==
  /\ Len(frames) <= FRAMES_MAX
  /\ (/\ runs = 1
      /\ status = "idle"
      /\ result = [kind |-> "RuntimeError", err |-> [e |-> "StackOverflow"]])
     => Len(frames) - 1 >= FRAMES_MAX

\* the locals a function body has declared: slot 0 is the function itself
Declared(c) == Len(c.locals) - 1
\* a step that compiles one declaration  var name ;
DeclareStep == compiled' # compiled /\ source'.words[1] = "var"
StackOverflowError ==
  [e |-> "StackOverflow", message |-> "Too many local variables in function"]

\* C10 (as stated): the first LOCALS_MAX local declarations of a function
\* yield no diagnostic.
C10_Locals_AsStated ==
  [][(DeclareStep /\ Declared(compiled.compiler) < LOCALS_MAX)
       => compiled'.diagnostics = << >>]_vars

\* C10 (amended): slot 0 of a function's locals is the function itself, so
\* LOCALS_MAX - 1 locals can be declared without diagnostic, each taking the
\* next slot, and the declaration after them yields StackOverflow.
C10_Locals ==
  [][DeclareStep
       => IF Declared(compiled.compiler) < LOCALS_MAX - 1
          THEN /\ compiled'.diagnostics = << >>
               /\ Declared(compiled'.compiler) = Declared(compiled.compiler) + 1
          ELSE compiled'.diagnostics = <<StackOverflowError>>]_vars

\* C10 witness: the declaration after LOCALS_MAX - 1 locals was refused
C10_Overflowed ==
  /\ compiled.diagnostics = <<StackOverflowError>>
  /\ Declared(compiled.compiler) = LOCALS_MAX - 1

\* the value Call(argc) finds argc slots below the top of the stack
Callee == peek(stack, ins.n).h
\* a call that is refused with err: the error is returned, no frame is
\* pushed and the value stack is as it was
CallRefused ==
  /\ status' = "idle"
  /\ result'.kind = "RuntimeError"
  /\ result'.err.e = "UnsupportedType"
  /\ Len(frames') = Len(frames)
  /\ stack' = stack

\* C11: Call(argc) on a value that is neither a Closure nor a Native, and
\* Call(argc) on a closure whose arity is not argc, return UnsupportedType
\* (the latter with the message Expected <arity> arguments, but got <argc>)
\* without a crash, without pushing a frame and without changing the stack.
C11_CallErrors ==
  [][(About("Call") /\ peek(stack, ins.n).some)
       => /\ Callee.t \notin {"closure", "native"} => CallRefused
          /\ (/\ Callee.t = "closure"
              /\ GcGet(module.closures, Callee.idx).some
              /\ functionHeap[closureHeap[GcGet(module.closures, Callee.idx).h].fun].arity
                   # ins.n)
             => /\ CallRefused
                /\ result'.err.message
                     = <<"Expected arguments, but got",
                         functionHeap[closureHeap[GcGet(module.closures, Callee.idx).h].fun].arity,
                         ins.n>>]_vars

\* C12: SetGlobal(name) for a name that is not in the globals map returns
\* UndefinedVariable and leaves the globals map and the stack unchanged; for
\* a name that is present it rebinds the name to the value on top of the
\* stack and leaves the stack as it was.
C12_SetGlobal ==
  [][About("SetGlobal")
       => IF ins.name \notin DOMAIN globals
          THEN /\ status' = "idle"
               /\ result' = [kind |-> "RuntimeError",
                             err |-> [e |-> "UndefinedVariable", name |-> ins.name]]
               /\ globals' = globals
               /\ stack' = stack
          ELSE /\ status' = "running"
               /\ DOMAIN globals' = DOMAIN globals
               /\ globals'[ins.name] = stack[Len(stack)]
               /\ \A k \in DOMAIN globals \ {ins.name} : globals'[k] = globals[k]
               /\ stack' = stack]_vars

\* C12 witness: an assignment to an undefined global was refused after an
\* assignment to a defined one had rebound it
C12_Refused ==
  /\ status = "idle"
  /\ result.kind = "RuntimeError"
  /\ result.err.e = "UndefinedVariable"
  /\ Len(frames) >= 1
  /\ top.ip >= 1
  /\ chunk[top.ip].op = "SetGlobal"
  /\ chunk[top.ip].name \notin DOMAIN globals
  /\ "a" \in DOMAIN globals
  /\ globals["a"].t = "str"
  /\ globals["a"].s = <<"x", "y">>

Interned(v) ==
  /\ v.t = "str"
  /\ [key |-> v.s, rc |-> v.rc] \in objects'.strings

\* C13: Add pops b then a; two numbers give their sum; a string a gives the
\* interned concatenation of a with the Display form of b, whatever b is;
\* every other pair, a number plus a string included, is an UnsupportedType
\* runtime error.
C13_Add ==
  [][(About("Add") /\ Len(stack) >= 2) =>
       LET b == stack[Len(stack)]
           a == stack[Len(stack) - 1]
           pushed == stack'[Len(stack')]
       IN CASE a.t = "num" /\ b.t = "num" ->
                 /\ status' = "running"
                 /\ stack' = Append(popped(2), NumAdd(a, b))
                 /\ (a.d = 1 /\ b.d = 1) => pushed = Number(a.n + b.n)
            [] a.t = "str" ->
                 /\ status' = "running"
                 /\ Len(stack') = Len(stack) - 1
                 /\ SubSeq(stack', 1, Len(stack) - 2) = popped(2)
                 /\ Interned(pushed)
                 /\ pushed.s = a.s \o Display(b)
            [] OTHER ->
                 /\ status' = "idle"
                 /\ result'.kind = "RuntimeError"
                 /\ result'.err.e = "UnsupportedType"
                 /\ stack' = popped(2)]_vars

\* a string and a non-string were added, then a number and a string refused
C13_Concatenated ==
  /\ <<"x", "n", "i", "l">> \in {output[i] : i \in 1..Len(output)}
  /\ <<"x", "<", "s", "t", "d", " ", "clock", ">">> \in {output[i] : i \in 1..Len(output)}
  /\ <<"x", "i", "n", "f">> \in {output[i] : i \in 1..Len(output)}
  /\ <<"0", ".", "5">> \in {output[i] : i \in 1..Len(output)}
  /\ status = "idle"
  /\ result.kind = "Ok"

C13_Refused ==
  /\ status = "idle"
  /\ result.kind = "RuntimeError"
  /\ result.err.e = "UnsupportedType"
  /\ source.words = SrcNumberPlusString
Literal(w) ==
  CASE w = "nil" -> Nil
    [] w = "false" -> Boolean(FALSE)
    [] w = "true" -> Boolean(TRUE)
    [] w = "''" -> String(<< >>)
    [] OTHER -> Number(Digits[w])
Falsey(v) == v = Nil \/ v = Boolean(FALSE)

\* what the statements of LogicCases from the i-th on print when g holds g0
RECURSIVE LogicPrints(_, _)
LogicPrints(i, g0) ==
  IF i > Len(LogicCases) THEN << >>
  ELSE LET c == LogicCases[i]
           a == Literal(c[1])
           evaluated == IF c[2] = "and" THEN ~Falsey(a) ELSE Falsey(a)
           g1 == IF evaluated THEN Digits[c[3]] ELSE g0
       IN <<Display(IF evaluated THEN Number(g1) ELSE a), Display(Number(g1))>>
            \o LogicPrints(i + 1, g1)

\* C15: a and b evaluates b exactly when a is truthy and yields a when a is
\* falsey, otherwise b; a or b evaluates b exactly when a is falsey and yields a
\* when a is truthy, otherwise b; one value is left on the stack on every
\* path; only nil and false are falsey.
C15_AndOr ==
  (source.words = SrcLogic /\ runs = 1) =>
    /\ result.kind \notin {"CompileError", "RuntimeError", "panic"}
    /\ status = "idle" =>
          /\ result.kind = "Ok"
          /\ output = LogicPrints(1, 0)
          /\ Len(stack) = 1
    /\ (status = "running" /\ CanFetch /\ ins.op = "Print") => Len(stack) = 2
    /\ (status = "running" /\ CanFetch /\ ins.op = "JumpIfFalse") => Len(stack) = 2

\* the run of the and / or statements has ended
C15_Evaluated ==
  /\ source.words = SrcLogic
  /\ status = "idle"
  /\ result.kind = "Ok"
  /\ runs = 1
  /\ output = LogicPrints(1, 0)
  /\ globals["g"] = Number(1)
ForSources == {SrcFor, SrcForNoCond, SrcForBare, SrcForEmpty}

\* the loop start parse_for records for each backward Jump of the for
\* sources (the start of the condition, or of the incrementer when there is
\* one), by the Jump's index in the chunk
LoopStart(words, jump) ==
  CASE words = SrcFor ->
         (CASE jump = 16 -> 5 [] jump = 19 -> 11 [] jump = 34 -> 23 [] jump = 37 -> 29
            [] jump = 54 -> 42)
    [] words = SrcForNoCond -> (CASE jump = 7 -> 1 [] jump = 11 -> 2)
    [] words = SrcForBare -> (CASE jump = 8 -> 2)

Whole(n) == Display(Number(n))

\* what the for sources print, clause by clause in the order of the claim
ForPrints(words) ==
  CASE words = SrcFor ->
         <<Whole(1), Whole(2), Whole(3), Whole(3), Whole(4), Whole(5),
           Whole(0), Whole(1), Whole(5)>>
    [] words \in {SrcForNoCond, SrcForBare} -> <<Whole(0)>>
    [] OTHER -> << >>

OwnInitializerError ==
  ParseErrorAt("Error", <<"Can't read local variable in its own initializer", "a">>)

\* C17: reading a local in its own initializer (var a = a; in a block, also
\* when an enclosing scope has an a) is a compile Error, and the program is
\* not executed.
C17_OwnInitializer ==
  [][(RunStep /\ source'.words \in {SrcSelfInit, SrcSelfInitShadow}) =>
       /\ \E i \in 1..Len(compiled'.diagnostics) : compiled'.diagnostics[i] = OwnInitializerError
       /\ status' = "idle"
       /\ result' = [kind |-> "CompileError"]
       /\ UNCHANGED <<frames, stack, globals, output>>]_vars

\* the program with the shadowing block was refused, print 1 included
C17_Refused ==
  /\ source.words = SrcSelfInitShadow
  /\ compiled.diagnostics[1] = OwnInitializerError
  /\ result = [kind |-> "CompileError"]
  /\ output = << >>
\* name is the name of a local of the scope the compiler c is in
InThisScope(c, name) ==
  \E i \in 1..Len(c.locals) : c.locals[i].name = name /\ c.locals[i].depth = c.scope_depth
AlreadyDeclared(name) ==
  ParseErrorAt("Warning", <<"Variable is already declared in this scope", name>>)

\* C18: declaring a name again in the same local scope gives a Warning and
\* still declares a new local in a new slot; later references resolve to the
\* later declaration; the declaration is not rejected.
C18_Redeclare ==
  [][(DeclareStep /\ InThisScope(compiled.compiler, source'.words[2])) =>
       LET name == source'.words[2]
           before == compiled.compiler.locals
           after == compiled'.compiler.locals
       IN /\ compiled'.reported = <<AlreadyDeclared(name)>>
          /\ compiled'.diagnostics = << >>
          /\ Len(after) = Len(before) + 1
          /\ SubSeq(after, 1, Len(before)) = before
          /\ after[Len(after)].name = name
          /\ resolve_local(compiled'.compiler, name)
               = [found |-> TRUE, idx |-> Len(after) - 1, err |-> NoErr]]_vars

\* a name was declared twice in one scope
C18_Redeclared ==
  /\ compiled.reported # << >>
  /\ compiled.diagnostics = << >>
  /\ \E i, j \in 1..Len(compiled.compiler.locals) :
       /\ i < j
       /\ compiled.compiler.locals[i].name = compiled.compiler.locals[j].name
       /\ compiled.compiler.locals[i].depth = compiled.compiler.locals[j].depth
\* the string values on the VM stack
StackStrings == {stack[i] : i \in {j \in 1..Len(stack) : stack[j].t = "str"}}

IsTraceProgram(src) == src.words = SrcTrace \/ src.name = "Trace"

\* C20: after a runtime error the stack trace has one line per frame, the
\* innermost first; where a calls b, b calls c and c calls c with two
\* arguments the error is Expected 0 arguments, but got 2 and the trace has
\* three lines, naming c, b, a in that order.
C20_StackTrace ==
  [][(IsTraceProgram(source) /\ runs = 1 /\ status = "running" /\ status' # "running") =>
       /\ result'.kind = "RuntimeError"
       /\ result'.err = UnsupportedType(<<"Expected arguments, but got", 0, 2>>)
       /\ stack_trace(frames') = <<"c", "b", "a">>]_vars

\* the lines the trace of the claim's program has in the model
C20_Traced ==
  /\ IsTraceProgram(source)
  /\ runs = 1
  /\ result.kind = "RuntimeError"
  /\ result.err = UnsupportedType(<<"Expected arguments, but got", 0, 2>>)
  /\ stack_trace(frames) = <<"c", "b", "a", "<script>">>
\* the frame on top executes the script compiled by the latest run
InScriptFrame == closureHeap[top.function].fun = Len(functionHeap)

\* C21: after Return from the script frame the value stack holds only the
\* reserved slot 0, for every program that compiled and has run without a
\* runtime error.
C21_ScriptReturn ==
  [][(About("Return") /\ InScriptFrame /\ Len(stack) >= 1)
       => stack' = <<Function("<script>", 0)>>]_vars
Closings(src, lo) ==
  {j \in lo + 3..Len(src) - 1 : src[j] = "*" /\ src[j + 1] = "/"}

\* the first of the offsets S
First(S) == CHOOSE x \in S : \A y \in S : x <= y

\* the token starting at byte offset lo starts with the two characters "/*"
OpensBlockComment(src, lo) ==
  lo + 2 <= Len(src) /\ src[lo + 1] = "/" /\ src[lo + 2] = "*"

\* C23: a block comment is closed by the first "*/" after its opening and
\* then yields a BlockComment token holding the text in between, also when
\* that "*/" ends the source; only a block comment that is never closed
\* yields the scanner error token.
C23_BlockComment ==
  \A i \in 1..Len(tokens) :
    LET lo == tokens[i].span[1]
        close == First(Closings(scanner.src, lo))
    IN OpensBlockComment(scanner.src, lo) =>
         IF Closings(scanner.src, lo) # {}
         THEN /\ tokens[i].kind.kind = "BlockComment"
              /\ tokens[i].kind.s = SubSeq(scanner.src, lo + 3, close - 1)
              /\ tokens[i].span[2] = close + 1
         ELSE /\ tokens[i].kind.kind = "Error"
              /\ tokens[i].kind.err = "UnterminatedComment"

\* the number of newline characters in text
RECURSIVE Newlines(_)
Newlines(text) ==
  IF text = << >> THEN 0
  ELSE (IF Head(text) = NL THEN 1 ELSE 0) + Newlines(Tail(text))

\* C24: every newline inside a string literal increments the line counter:
\* when the scanner yields a String token, its line counter has grown by
\* the number of newlines it consumed, those of the string included, so the
\* token scanned next carries the line it is really on.
C24_StringNewlines ==
  [][(tokens' # tokens /\ tokens'[Len(tokens')].kind.kind = "String")
       => scanner'.line = scanner.line
            + Newlines(SubSeq(scanner.src, scanner.current.idx + 1,
                              scanner'.current.idx))]_vars


\* the threshold the claim gives the instruction about to be dispatched:
\* the base of the frame that Return pops, the top slot for CloseUpval
ClosingThreshold == IF ins.op = "Return" THEN top.start ELSE Len(stack) - 1

\* C25: closing upvalues with threshold t closes exactly the open upvalues
\* of slot >= t, each keeping the value its slot held, and leaves every open
\* upvalue of a lower slot open on its slot; Return closes from the base of
\* the frame it pops and CloseUpval from the top slot, in frames of any base.
C25_CloseThreshold ==
  [][((\/ About("Return") /\ Len(frames) > 1
       \/ About("CloseUpval"))
      /\ status' = "running")
       => \A h \in RegisteredUpvals(module.upvals) :
            upvalHeap[h].open =>
              upvalHeap'[h] = IF upvalHeap[h].slot >= ClosingThreshold
                              THEN Closed(stack[upvalHeap[h].slot + 1])
                              ELSE upvalHeap[h]]_vars


\* C26: there is at most one open upvalue per absolute stack slot: two
\* registered upvalues that are open on the same slot are one upvalue.
C26_OneOpenPerSlot ==
  \A h1, h2 \in RegisteredUpvals(module.upvals) :
    (/\ upvalHeap[h1].open
     /\ upvalHeap[h2].open
     /\ upvalHeap[h1].slot = upvalHeap[h2].slot)
    => h1 = h2


\* the callee of the Call about to be dispatched is a registered native
CallTargetsNative ==
  /\ About("Call")
  /\ peek(stack, ins.n).some
  /\ peek(stack, ins.n).h.t = "native"
  /\ peek(stack, ins.n).h.idx < Len(module.natives)

\* the argc values above the callee, in order
ArgumentsAbove == [i \in 1..ins.n |-> stack[Len(stack) - ins.n + i]]

\* C27: a native called with Call(argc) receives exactly the argc values
\* above the callee, in order, the callee not among them and the last
\* argument included; when the native returns a value, the callee and the
\* arguments are replaced by it.
C27_NativeArguments ==
  [][CallTargetsNative
       => /\ NativeArgs = ArgumentsAbove
          /\ status' = "running"
               => /\ Len(stack') = Len(stack) - ins.n
                  /\ SubSeq(stack', 1, Len(stack') - 1)
                       = SubSeq(stack, 1, Len(stack) - ins.n - 1)
                  /\ stack'[Len(stack')] \in ClockValues]_vars


\* the parser stands at a statement boundary: it has just consumed a ";" or
\* stands before a statement-starter keyword or the end of input
AtBoundary(p) ==
  \/ p.prev_token.kind = "Semicolon"
  \/ p.current_token.kind \in
       {"Class", "For", "Fun", "If", "Print", "Return", "Var", "While", "EOF"}

\* C28: after any parse error the parser skips to the next statement
\* boundary and leaves panic mode: when the first declaration of a text
\* adds a diagnostic, the parser is at a boundary and out of panic mode when
\* the declaration returns.
C28_PanicRecovery ==
  (runs = 1 /\ source.name = "text") =>
    LET p == ParserNew(Lex(source.words), 0)
        q == declaration(p)
    IN (/\ ~p.crashed
        /\ ~is_at_end(p)
        /\ ~q.crashed
        /\ Len(q.diagnostics) > Len(p.diagnostics))
       => (~q.panic_mode /\ AtBoundary(q))


\* C29: at every instruction fetch the ip of the frame on top is a valid
\* offset into its chunk, so that the dispatch loop never ends by running
\* past the end of a chunk.
C29_IpInChunk ==
  /\ Running => top.ip < Len(chunk)
  /\ result.kind = "Ok" => result.how # "EndOfChunk"


\* every Jump or JumpIfFalse of code, at offset i with operand d, has its
\* target i + 1 + d inside [0, code.len())
JumpsInside(code) ==
  \A k \in 1..Len(code) :
    code[k].op \in {"Jump", "JumpIfFalse"}
      => (k + code[k].n >= 0 /\ k + code[k].n < Len(code))

\* C30: in every function of a program compiled without error, every Jump
\* and JumpIfFalse has its target inside the function's code.
C30_JumpTargets ==
  (runs = 1 /\ ~compiled.crashed /\ compiled.diagnostics = << >>)
    => \A f \in 1..Len(compiled.functions) : JumpsInside(compiled.functions[f].code)


\* the closures the registry holds
RegisteredClosures ==
  {module.closures.data[i].h :
     i \in {j \in 1..Len(module.closures.data) : module.closures.data[j].some}}

\* C31: every closure in the registry has as many upvalues as its function
\* declares, in every state that follows the Closure instruction creating
\* it, also after registry slots have been freed and reused.
C31_ClosureUpvalues ==
  \A c \in RegisteredClosures :
    Len(closureHeap[c].upvalues) = functionHeap[closureHeap[c].fun].upvalues


\* the number of blocks still open after the first k words
RECURSIVE Depth(_, _)
Depth(words, k) ==
  IF k = 0 THEN 0
  ELSE Depth(words, k - 1)
       + (CASE words[k] = "{" -> 1 [] words[k] = "}" -> -1 [] OTHER -> 0)

\* the block statements at the top level of words: <<i, j>> for a block
\* opened by word i and closed by word j
TopBlocks(words) ==
  {b \in (1..Len(words)) \X (1..Len(words)) :
     /\ b[1] < b[2]
     /\ words[b[1]] = "{" /\ Depth(words, b[1] - 1) = 0
     /\ words[b[2]] = "}" /\ Depth(words, b[2]) = 0
     /\ \A k \in b[1]..b[2] - 1 : Depth(words, k) > 0}

\* the offset of the first instruction that is emitted after the first k
\* words of a script, k being the end of a top-level statement
OffsetAfter(words, k) ==
  LET p == compile(Lex(SubSeq(words, 1, k)), 0)
  IN Len(p.functions[Len(p.functions)].code) - Len(ReturnNil)

BlockSources == {SrcBlocks, SrcLocals, SrcRedeclare}

\* the script frame of a first run stands at offset
ScriptAt(offset) == runs = 1 /\ Running /\ Len(frames) = 1 /\ top.ip = offset

Kept(c, depth) == SelectSeq(c.locals, LAMBDA l : l.depth <= depth)
Removed(c, depth) ==
  LET gone == SelectSeq(c.locals, LAMBDA l : l.depth > depth)
  IN [i \in 1..Len(gone) |-> gone[Len(gone) + 1 - i]]

\* what a run of end-of-scope instructions does to the stack, one slot at a
\* time: TRUE for a slot closed, FALSE for a slot popped
RECURSIVE Slots(_)
Slots(code) ==
  IF code = << >> THEN << >>
  ELSE IF code[1].op = "CloseUpval" THEN <<TRUE>> \o Slots(Tail(code))
  ELSE [i \in 1..code[1].n |-> FALSE] \o Slots(Tail(code))

\* no PopN of code is empty, none follows another
Flushed(code) ==
  \A i \in 1..Len(code) :
    code[i].op = "PopN" =>
      /\ code[i].n > 0
      /\ i < Len(code) => code[i + 1].op # "PopN"

\* C33: when a scope ends the compiler drops exactly the locals deeper than
\* the new scope depth, and what it emits treats them one by one from the
\* last declared to the first: a CloseUpval for a captured one, a pop for
\* any other, consecutive pops being gathered into one PopN.
C33_EndScope ==
  [][compiled'.compiler.scope_depth < compiled.compiler.scope_depth =>
       LET c == compiled.compiler
           d == compiled'.compiler
           emitted == SubSeq(d.function.code, Len(c.function.code) + 1,
                             Len(d.function.code))
           gone == Removed(c, d.scope_depth)
       IN /\ d.scope_depth = c.scope_depth - 1
          /\ d.locals = Kept(c, d.scope_depth)
          /\ c.locals = d.locals \o [i \in 1..Len(gone) |-> gone[Len(gone) + 1 - i]]
          /\ Len(c.function.code) <= Len(d.function.code)
          /\ SubSeq(d.function.code, 1, Len(c.function.code)) = c.function.code
          /\ \A i \in 1..Len(emitted) : emitted[i].op \in {"PopN", "CloseUpval"}
          /\ Slots(emitted) = [i \in 1..Len(gone) |-> gone[i].captured]
          /\ Flushed(emitted)]_vars

\* a scope has ended that held a captured local between two others, so that
\* two PopN stand around a CloseUpval
C33_MixedScope ==
  /\ source.words = <<"}">>
  /\ \E i \in 1..(Len(compiled.compiler.function.code) - 2) :
       /\ compiled.compiler.function.code[i].op = "PopN"
       /\ compiled.compiler.function.code[i + 1].op = "CloseUpval"
       /\ compiled.compiler.function.code[i + 2].op = "PopN"

\* the upvalue a SetUpval about to execute writes through
Written == closureHeap[top.function].upvalues[ins.n + 1]

\* C34: an upvalue is created Open, an Open upvalue keeps its slot until it
\* is closed, and a Closed upvalue is never Open again; a SetUpval through a
\* Closed upvalue replaces only the value stored in it, a SetUpval through
\* an Open upvalue writes only the stack slot it names.
C34_UpvalueLife ==
  [][/\ Len(upvalHeap') >= Len(upvalHeap)
     /\ \A h \in 1..Len(upvalHeap') :
          IF h > Len(upvalHeap) THEN upvalHeap'[h].open
          ELSE /\ ~upvalHeap[h].open => ~upvalHeap'[h].open
               /\ (upvalHeap[h].open /\ upvalHeap'[h].open)
                    => upvalHeap'[h] = upvalHeap[h]
     /\ (Fetch("SetUpval") /\ status' # "dead") =>
          IF upvalHeap[Written].open
          THEN /\ upvalHeap' = upvalHeap
               /\ stack' = [stack EXCEPT ![upvalHeap[Written].slot + 1] = stack[Len(stack)]]
          ELSE /\ stack' = stack
               /\ upvalHeap' = [upvalHeap EXCEPT ![Written] = Closed(stack[Len(stack)])]
    ]_vars

\* a SetUpval has just written the top of the stack through a Closed upvalue
C34_WroteClosed ==
  /\ Running
  /\ top.ip > 0
  /\ top.ip <= Len(chunk)
  /\ chunk[top.ip].op = "SetUpval"
  /\ chunk[top.ip].n < Len(closureHeap[top.function].upvalues)
  /\ ~upvalHeap[closureHeap[top.function].upvalues[chunk[top.ip].n + 1]].open
  /\ upvalHeap[closureHeap[top.function].upvalues[chunk[top.ip].n + 1]].value
       = stack[Len(stack)]

\* the upvalue cells that exist: some handle, of the registry or of a live
\* closure, still refers to them
LiveUpvals ==
  {h \in 1..Len(upvalHeap) :
     UpvalCount(h, module.upvals, closureHeap, frames, module.closures) > 0}

RECURSIVE ParenDepth(_, _)
ParenDepth(words, k) ==
  IF k = 0 THEN 0
  ELSE ParenDepth(words, k - 1)
       + (IF words[k] = "(" THEN 1 ELSE IF words[k] = ")" THEN -1 ELSE 0)

\* the statement boundaries of a text: the lengths of its prefixes that end
\* where a statement or a block has just begun or a statement has just ended
Boundaries(words) ==
  {k \in 0..Len(words) :
     /\ ParenDepth(words, k) = 0
     /\ k = 0 \/ words[k] \in {";", "{"}}

\* the parser after the first k words: its compiler holds the locals
\* declared so far, its last function the code emitted so far
ParsedTo(words, k) == compile(Lex(SubSeq(words, 1, k)), 0)

\* the top frame runs the script compiled from the current source text
InCompiledScript ==
  /\ Running
  /\ source.name = "text"
  /\ compiled.functions # << >>
  /\ chunk = compiled.functions[Len(compiled.functions)].code

\* the texts whose statement boundaries are followed: those with locals in
\* blocks and loops, and the one-statement texts
BoundarySources ==
  BlockSources
  \cup {SrcSelfInitShadow, SrcJumps, SrcForBare, SrcForNoCond}
  \cup {<<"print", "!", w, ";">> : w \in {"nil", "false", "true", "0", "1", "''", "'x'", "clock"}}

\* at a statement boundary of the script the stack holds, above the base of
\* the frame, one value for each local the compiler had there
BoundaryHeights ==
  (source.words \in BoundarySources /\ InCompiledScript) =>
    \A k \in Boundaries(source.words) :
      LET p == ParsedTo(source.words, k)
      IN (/\ p.compiler.fun_type = "Script"
          /\ top.ip = Len(p.functions[Len(p.functions)].code) - Len(ReturnNil))
         => Len(stack) - top.start = Len(p.compiler.locals)

\* fun f(a, b) { print b; print a; }  reads b from slot 2 and a from slot 1
ParamSlots ==
  LET f == compile(Lex(<<"fun", "f", "(", "a", ",", "b", ")", "{",
                         "print", "b", ";", "print", "a", ";", "}">>), 0).functions[1]
  IN /\ f.arity = 2
     /\ SubSeq(f.code, 1, 4)
          = <<OpN("GetLocal", 2), Op("Print"), OpN("GetLocal", 1), Op("Print")>>

\* C36: at every statement boundary of the script the stack height above
\* the base of the frame is the number of locals the compiler had there;
\* GetLocal(i) pushes and SetLocal(i) overwrites the value i slots above the
\* base; a call enters the function with the callee in slot 0 and one slot
\* for each parameter above it, and the compiler numbers parameter k as
\* local 1 + k.
C36_LocalsOnStack ==
  [][/\ BoundaryHeights
     /\ runs = 0 => ParamSlots
     /\ (Fetch("GetLocal") /\ status' = "running")
          => stack' = Append(stack, stack[top.start + ins.n + 1])
     /\ (Fetch("SetLocal") /\ status' = "running")
          => stack' = [stack EXCEPT ![top.start + ins.n + 1] = stack[Len(stack)]]
     /\ (Fetch("Call") /\ Len(frames') = Len(frames) + 1)
          => LET frame == frames'[Len(frames')]
             IN /\ Len(stack') - frame.start
                     = 1 + functionHeap[closureHeap[frame.function].fun].arity
                /\ stack'[frame.start + 1].t = "closure"
    ]_vars

\* C37: once VM::run has returned, with Ok, a compile error or a runtime
\* error, no frame is left and the stack holds slot 0 alone.
C37_RunLeavesClean ==
  (status = "idle" /\ runs > 0) => (frames = << >> /\ Len(stack) = 1)

\* the registry indices of the closure values in a sequence of values
ClosureIdx(vals) == {vals[i].idx : i \in {j \in 1..Len(vals) : vals[j].t = "closure"}}

\* the registry indices that closure values within reach name: values on
\* the stack st, in the globals g and in the Closed upvalues of heap
Referred(st, g, heap) ==
  ClosureIdx(st)
  \cup {g[n].idx : n \in {m \in DOMAIN g : g[m].t = "closure"}}
  \cup {heap[h].value.idx :
          h \in {u \in 1..Len(heap) : ~heap[u].open /\ heap[u].value.t = "closure"}}

\* what a step does to the entries that closure values within reach name
ClosureKeptStep ==
  /\ \A idx \in Referred(stack, globals, upvalHeap)
               \cap Referred(stack', globals', upvalHeap') :
       /\ GcGet(module.closures', idx).some
       /\ GcGet(module.closures, idx).some
            => GcGet(module.closures', idx) = GcGet(module.closures, idx)
  /\ (Fetch("Closure") /\ Len(closureHeap') = Len(closureHeap) + 1)
       => GcGet(module.closures', stack'[Len(stack')].idx) = Some(Len(closureHeap'))

\* C38: the registry entry that a closure value within reach names is
\* never reclaimed and never given to another closure: as long as the value
\* stays within reach the entry holds the closure it held before, which is,
\* when a Closure instruction has just pushed the value, the closure that
\* instruction created.
C38_ClosureKept == [][ClosureKeptStep]_vars

\* C39: when the compilation of a function declaration has ended, with or
\* without a parse error in its parameter list or around its body, the
\* compiler current at the end of parse is the script's, with the script's
\* single local, the function parse pushed last is the script, and a
\* statement after the declaration has gone into the script.
C39_EnclosingRestored ==
  (runs = 1 /\ source.words \in FunTexts /\ ~compiled.crashed) =>
    LET main == compiled.functions[Len(compiled.functions)]
    IN /\ compiled.compiler.fun_type = "Script"
       /\ compiled.compiler.scope_depth = 0
       /\ compiled.compiler.locals = <<Local("<script>", 0)>>
       /\ main.name = "<script>"
       /\ (\E head \in FunHeads : source.words = head \o <<"print", "2", ";">>)
            => /\ Len(main.code) >= 4
               /\ SubSeq(main.code, Len(main.code) - 3, Len(main.code))
                    = <<Num(2), Op("Print")>> \o ReturnNil


====
